---- MODULE Spec2Model ----
(***************************************************************************)
(* Model of the speak grammar engine: the EBNF expression tree, grammar    *)
(* validation (validate / ebnf.Verify) and the backtracking interpreter    *)
(* (parser.evalExpr and friends) as a small-step machine over an explicit  *)
(* call stack.                                                             *)
(***************************************************************************)
EXTENDS Integers, Sequences, FiniteSets, TLC

VARIABLES
    grammar,    \* ebnf.Grammar: production name -> Production.Expr
    start,      \* name of the start production
    input,      \* parser.input: sequence of bytes
    pos,        \* parser.pos: byte offset into input
    eof,        \* parser.eof
    skipping,   \* parser.skipping
    stack,      \* Go call stack of the interpreter, innermost frame last
    retv,       \* value returned by the call that returned last
    ret,        \* speak: ret, the result of evalProd on the start production
    status,     \* "idle", "parsed", "run", "done", "panic" (Go panic),
                \* "overflow"
    skipNames,  \* validate: the skip parameter
    verr,       \* error returned by the last call of validate
    history,    \* the calls made on the grammar so far, oldest first
    terms,      \* the results of the calls of Terminals so far, oldest first
    source,     \* ebnf.Parse: the grammar source, a sequence of tokens
    parsed,     \* ebnf.Parse: the grammar and the errors returned
    re          \* RegexpString: the regular expression of the start production

vars == <<grammar, start, input, pos, eof, skipping, stack, retv, ret,
          status, skipNames, verr, history, terms, source, parsed, re>>

toolVars == <<terms, source, parsed, re>>

\* neither Terminals nor ebnf.Parse nor RegexpString has been called
ToolsIdle ==
    /\ terms = <<>>
    /\ source = <<>>
    /\ parsed = [grammar |-> <<>>, errors |-> <<>>]
    /\ re = <<>>

interpVars == <<input, pos, eof, skipping, stack, retv, ret, status>>

----------------------------------------------------------------------------
(* Expression model.  Every node is a record of the same shape; str and    *)
(* str2 are strings as sequences of runes, xs the children.                *)

Node(t, name, str, str2, xs) ==
    [t |-> t, name |-> name, str |-> str, str2 |-> str2, xs |-> xs]

\* nil ebnf.Expression: the body of `Name = .`
Nil == Node("nil", "", <<>>, <<>>, <<>>)

Alternative(xs) == Node("Alternative", "", <<>>, <<>>, xs)

Sequence(xs) == Node("Sequence", "", <<>>, <<>>, xs)

Name(s) == Node("Name", s, <<>>, <<>>, <<>>)

Token(s) == Node("Token", "", s, <<>>, <<>>)

\* Range{Begin: Token(b), End: Token(e)}
Range(b, e) == Node("Range", "", b, e, <<>>)

Group(body) == Node("Group", "", <<>>, <<>>, <<body>>)

Option(body) == Node("Option", "", <<>>, <<>>, <<body>>)

Repetition(body) == Node("Repetition", "", <<>>, <<>>, <<body>>)

Body(x) == x.xs[1]

----------------------------------------------------------------------------
(* Runes and names.                                                        *)

\* utf8.RuneError
RuneError == 65533

\* utf8.DecodeRuneInString applied to the production names of the model.
FirstRune ==
    [Program |-> 80, Foo |-> 70, Expr |-> 69, skip |-> 115, ws |-> 119,
     ident |-> 105, letter |-> 108, empty |-> 101, digit |-> 100,
     choice |-> 99, tail |-> 116]

\* unicode.IsUpper on the ASCII plane
IsUpper(ch) == ch \in 65..90

isLexical(name) == ~IsUpper(FirstRune[name])

\* utf8.DecodeRuneInString on a string held as a sequence of runes
DecodeRuneInString(s) == IF Len(s) = 0 THEN RuneError ELSE s[1]

\* the UTF-8 encoding of a rune below 2048
EncodeRune(r) ==
    IF r < 128 THEN <<r>> ELSE <<192 + (r \div 64), 128 + (r % 64)>>

RECURSIVE Encode(_)
\* the bytes of a string given as its runes
Encode(str) ==
    IF str = <<>> THEN <<>> ELSE EncodeRune(Head(str)) \o Encode(Tail(str))

----------------------------------------------------------------------------
(* ebnf.Verify: the closure check of the ebnf package.                     *)

RECURSIVE NamesIn(_)
\* the names of the Name nodes of an expression tree
NamesIn(x) ==
    IF x.t = "Name" THEN {x.name}
    ELSE UNION {NamesIn(x.xs[i]) : i \in 1..Len(x.xs)}

RECURSIVE RangesIn(_)
\* the Range nodes of an expression tree
RangesIn(x) ==
    IF x.t = "Range" THEN {x}
    ELSE UNION {RangesIn(x.xs[i]) : i \in 1..Len(x.xs)}

RECURSIVE Reached(_, _)
\* verifier.reached once the worklist is empty: the defined productions
\* reached from the productions of `seen` through Name nodes
Reached(g, seen) ==
    LET more == {n \in DOMAIN g : \E m \in seen : n \in NamesIn(g[m])}
    IN IF more \subseteq seen THEN seen ELSE Reached(g, seen \cup more)

VErr(kind, name) == [kind |-> kind, name |-> name]

\* verifier.verifyExpr on Range: both ends one character, increasing
BadRange(r) ==
    \/ Len(r.str) # 1
    \/ Len(r.str2) # 1
    \/ r.str[1] >= r.str2[1]

\* The errors ebnf.Verify(grammar, start) collects; no error iff the set is
\* empty.
Verify(g, st) ==
    IF st \notin DOMAIN g THEN {VErr("no start production", st)}
    ELSE LET reached == Reached(g, {st})
         IN {VErr("missing production", n) :
                n \in {m \in UNION {NamesIn(g[p]) : p \in reached} :
                          m \notin DOMAIN g}}
            \cup {VErr("reference to non-lexical production", n) :
                n \in {m \in UNION {NamesIn(g[p]) :
                                       p \in {q \in reached : isLexical(q)}} :
                          ~isLexical(m)}}
            \cup {VErr("bad character range", p) :
                p \in {q \in reached : \E r \in RangesIn(g[q]) : BadRange(r)}}
            \cup {VErr("is unreachable", n) : n \in DOMAIN g \ reached}

----------------------------------------------------------------------------
(* validate and hasRange.                                                  *)

NoRange == [ok |-> FALSE, r |-> Nil]

RECURSIVE hasRange(_)
RECURSIVE hasRangeList(_, _)
\* the loop `for _, e := range expr` of hasRange, from child i on
hasRangeList(xs, i) ==
    IF i > Len(xs) THEN NoRange
    ELSE LET h == hasRange(xs[i])
         IN IF h.ok THEN h ELSE hasRangeList(xs, i + 1)

\* hasRange that does not look below an Option
hasRangeNotInOption(expr) ==
    CASE expr.t \in {"nil", "Option"} -> NoRange
      [] expr.t \in {"Alternative", "Sequence"} -> hasRangeList(expr.xs, 1)
      [] expr.t \in {"Name", "Token"} -> NoRange
      [] expr.t = "Range" -> [ok |-> TRUE, r |-> expr]
      [] expr.t \in {"Group", "Repetition"} -> hasRange(Body(expr))

\* hasRange: the first Range of the tree in source order, if any
hasRange(expr) ==
    CASE expr.t = "nil" -> NoRange
      [] expr.t \in {"Alternative", "Sequence"} -> hasRangeList(expr.xs, 1)
      [] expr.t \in {"Name", "Token"} -> NoRange
      [] expr.t = "Range" -> [ok |-> TRUE, r |-> expr]
      [] expr.t \in {"Group", "Option", "Repetition"} -> hasRange(Body(expr))

\* errors of validate: kind, the name cited, the range cited, Verify's errors
Err(kind, name, r, errs) == [kind |-> kind, name |-> name, r |-> r, errs |-> errs]

NoErr == Err("ok", "", Nil, {})

\* FirstBadSkip without the lookup of the name in the grammar
FirstBadSkipLexicalOnly(g, sk) ==
    LET bad == {i \in 1..Len(sk) : ~isLexical(sk[i])}
    IN IF bad = {} THEN 0 ELSE CHOOSE i \in bad : \A j \in bad : i <= j

\* the loop over skip: index of the first skip name that validate rejects,
\* 0 if none
FirstBadSkip(g, sk) ==
    LET bad == {i \in 1..Len(sk) : ~isLexical(sk[i]) \/ sk[i] \notin DOMAIN g}
    IN IF bad = {} THEN 0 ELSE CHOOSE i \in bad : \A j \in bad : i <= j

\* alts after the loop over skip
SkipAlts(startExpr, sk) ==
    Alternative(<<startExpr>> \o [i \in 1..Len(sk) |-> Name(sk[i])])

\* a sequence listing the elements of the set S
RECURSIVE SeqOf(_)
SeqOf(S) ==
    IF S = {} THEN <<>>
    ELSE LET x == CHOOSE y \in S : TRUE IN <<x>> \o SeqOf(S \ {x})

\* Spliced exempting every lexical production rather than the skip names
SplicedAllLexical(g, st, sk) ==
    [g EXCEPT ![st] = SkipAlts(g[st], SeqOf({n \in DOMAIN g : isLexical(n)}))]

\* startProd.Expr = alts: the grammar with the skip names spliced into start
Spliced(g, st, sk) == [g EXCEPT ![st] = SkipAlts(g[st], sk)]

\* validateRanges looking into the lexical productions
validateRangesLexical(g) ==
    LET offenders == {n \in DOMAIN g : isLexical(n) /\ hasRange(g[n]).ok}
    IN IF offenders # {}
       THEN {[err |-> Err("range in non-terminal", n, hasRange(g[n]).r, {}),
              grammar |-> g] : n \in offenders}
       ELSE {[err |-> NoErr, grammar |-> g]}

\* the range check.  It iterates the grammar map, whose order is unspecified,
\* so any offending production may be the one reported.
validateRanges(g) ==
    LET offenders == {n \in DOMAIN g : ~isLexical(n) /\ hasRange(g[n]).ok}
    IN IF offenders # {}
       THEN {[err |-> Err("range in non-terminal", n, hasRange(g[n]).r, {}),
              grammar |-> g] : n \in offenders}
       ELSE {[err |-> NoErr, grammar |-> g]}

\* validateClosure dropping the error of ebnf.Verify
validateClosureNoVerify(g, st, sk) ==
    validateRanges([Spliced(g, st, sk) EXCEPT ![st] = g[st]])

\* validateClosure calling ebnf.Verify before the skip names are spliced in
validateClosureUnspliced(g, st, sk) ==
    IF Verify(g, st) # {}
    THEN {[err |-> Err("verify", "", Nil, Verify(g, st)),
           grammar |-> Spliced(g, st, sk)]}
    ELSE validateRanges([Spliced(g, st, sk) EXCEPT ![st] = g[st]])

\* splice, ebnf.Verify, restore, range check.  When Verify fails validate
\* returns with the spliced start production still in the grammar.
validateClosure(g, st, sk) ==
    LET g1 == Spliced(g, st, sk)
    IN IF Verify(g1, st) # {}
       THEN {[err |-> Err("verify", "", Nil, Verify(g1, st)), grammar |-> g1]}
       ELSE validateRanges([g1 EXCEPT ![st] = g[st]])

\* validate(grammar, start, skip): the possible outcomes, each the error
\* returned and the grammar as the call leaves it
validate(g, st, sk) ==
    IF st \notin DOMAIN g
    THEN {[err |-> Err("no initial production", st, Nil, {}), grammar |-> g]}
    ELSE IF FirstBadSkip(g, sk) # 0
    THEN LET id == sk[FirstBadSkip(g, sk)]
         IN IF ~isLexical(id)
            THEN {[err |-> Err("invalid ignored terminal", id, Nil, {}),
                   grammar |-> g]}
            ELSE {[err |-> Err("no ignored production", id, Nil, {}),
                   grammar |-> g]}
    ELSE validateClosure(g, st, sk)

----------------------------------------------------------------------------
(* Grammars and skip lists the validator is run on.                        *)

\* longest skip list passed to validate
MaxSkip == 1

\* most calls (validate, add, remove) made on one grammar
MaxOps == 5

VNames == {"Program", "Foo", "skip", "ws"}

TokA == Token(<<97>>)

RangeAZ == Range(<<97>>, <<122>>)

\* production bodies of the flat grammars
VBodies == {Nil, TokA, RangeAZ, Name("Foo"), Name("skip"), Name("ws")}

\* x under each of the five composite nodes, sib its sibling in a list
Wrap(x, sib) ==
    {Group(x), Option(x), Repetition(x),
     Alternative(<<sib, x>>), Sequence(<<sib, x>>)}

\* a Range one and two levels below the root, beside the body b
DeepBodies(b) ==
    Wrap(RangeAZ, b)
    \cup UNION {Wrap(w, b) : w \in Wrap(RangeAZ, TokA)}
    \cup {Alternative(<<b, Range(<<122>>, <<97>>)>>)}

\* every grammar over VNames whose bodies are flat
FlatGrammars ==
    UNION {[D -> VBodies] : D \in SUBSET VNames}

BaseGrammars ==
    {[Program |-> Name("Foo"), Foo |-> Name("ws"), ws |-> TokA, skip |-> TokA],
     [Program |-> Name("ws"), ws |-> TokA],
     [Program |-> Name("ws"), ws |-> RangeAZ]}

\* a base grammar with one body replaced by a body holding a nested Range
DeepGrammars ==
    UNION {{[B EXCEPT ![n] = d] : d \in DeepBodies(B[n])} :
              <<B, n>> \in {<<B, n>> \in BaseGrammars \X VNames : n \in DOMAIN B}}

VGrammars == FlatGrammars \cup DeepGrammars

SkipLists == UNION {[1..k -> VNames \ {"Program"}] : k \in 0..MaxSkip}

NoCall == Err("none", "", Nil, {})

\* one call on the grammar: the grammar before and after it, the production
\* added or removed, the error validate returned
Call(op, name, err, before, after) ==
    [op |-> op, name |-> name, err |-> err, before |-> before, after |-> after]

\* the kind of the call made last, "none" before the first
LastOp == IF history = <<>> THEN "none" ELSE history[Len(history)].op

\* grammar[n] = production with body e
WithProduction(g, n, e) ==
    [m \in DOMAIN g \cup {n} |-> IF m = n THEN e ELSE g[m]]

\* delete(grammar, n)
WithoutProduction(g, n) == [m \in DOMAIN g \ {n} |-> g[m]]

InitV ==
    /\ grammar \in VGrammars
    /\ start = "Program"
    /\ skipNames \in SkipLists
    /\ verr = NoCall
    /\ history = <<>>
    /\ input = <<>>
    /\ pos = 0
    /\ eof = FALSE
    /\ skipping = FALSE
    /\ stack = <<>>
    /\ retv = FALSE
    /\ ret = FALSE
    /\ status = "idle"
    /\ ToolsIdle

\* the caller runs validate on the grammar as it stands
Validate ==
    /\ Len(history) < MaxOps
    /\ LastOp # "validate"
    /\ \E o \in validate(grammar, start, skipNames) :
          /\ grammar' = o.grammar
          /\ verr' = o.err
          /\ history' = Append(history,
                Call("validate", "", o.err, grammar, o.grammar))
    /\ UNCHANGED <<start, skipNames>>
    /\ UNCHANGED interpVars
    /\ UNCHANGED toolVars

\* the caller adds a production to a grammar that validated
AddProduction ==
    /\ Len(history) < MaxOps
    /\ LastOp = "validate"
    /\ verr.kind = "ok"
    /\ \E n \in VNames \ DOMAIN grammar : \E e \in VBodies :
          /\ grammar' = WithProduction(grammar, n, e)
          /\ history' = Append(history,
                Call("add", n, NoCall, grammar, WithProduction(grammar, n, e)))
    /\ UNCHANGED <<start, skipNames, verr>>
    /\ UNCHANGED interpVars
    /\ UNCHANGED toolVars

\* the caller removes a production that validate reported as unreachable
RemoveProduction ==
    /\ Len(history) < MaxOps
    /\ LastOp = "validate"
    /\ verr.kind = "verify"
    /\ \E n \in DOMAIN grammar :
          /\ VErr("is unreachable", n) \in verr.errs
          /\ grammar' = WithoutProduction(grammar, n)
          /\ history' = Append(history,
                Call("remove", n, NoCall, grammar, WithoutProduction(grammar, n)))
    /\ UNCHANGED <<start, skipNames, verr>>
    /\ UNCHANGED interpVars
    /\ UNCHANGED toolVars

NextV == Validate \/ AddProduction \/ RemoveProduction

SpecV == InitV /\ [][NextV]_vars

----------------------------------------------------------------------------
(* The interpreter: parser.nextRune and the leaf evaluators.               *)

\* const eof rune
eofRune == -1

\* utf8.DecodeRune(p.input[p.pos:]) for one- and two-byte encodings: the
\* rune and its size in bytes
DecodeRune(inp, p) ==
    LET b == inp[p + 1]
    IN IF b < 128 THEN [r |-> b, size |-> 1]
       ELSE IF /\ b \in 194..223
               /\ p + 2 <= Len(inp)
               /\ inp[p + 2] \in 128..191
       THEN [r |-> (b - 192) * 64 + (inp[p + 2] - 128), size |-> 2]
       ELSE [r |-> RuneError, size |-> 1]

\* nextRune reporting the end of input one byte early
nextRuneEarlyEof(inp, p, e) ==
    IF p >= Len(inp) - 1
    THEN [r |-> eofRune, pos |-> p, eof |-> TRUE]
    ELSE [r |-> DecodeRune(inp, p).r, pos |-> p + DecodeRune(inp, p).size,
          eof |-> e]

\* parser.nextRune: the rune returned, p.pos and p.eof after the call
nextRune(inp, p, e) ==
    IF p >= Len(inp)
    THEN [r |-> eofRune, pos |-> p, eof |-> TRUE]
    ELSE [r |-> DecodeRune(inp, p).r, pos |-> p + DecodeRune(inp, p).size,
          eof |-> e]

RECURSIVE tokenLoop(_, _, _, _, _)
\* the loop of evalToken from the k-th rune of the token on
tokenLoop(str, k, inp, p, e) ==
    IF k > Len(str) THEN [ok |-> TRUE, pos |-> p, eof |-> e]
    ELSE LET n == nextRune(inp, p, e)
         IN IF n.r = eofRune \/ n.r # str[k]
            THEN [ok |-> FALSE, pos |-> n.pos, eof |-> n.eof]
            ELSE tokenLoop(str, k + 1, inp, n.pos, n.eof)

\* evalToken putting the cursor back where it was when the token fails
evalTokenRestoring(x, inp, p, e) ==
    LET res == tokenLoop(x.str, 1, inp, p, e)
    IN IF res.ok THEN res ELSE [res EXCEPT !.pos = p]

\* parser.evalToken: result, p.pos and p.eof after the call
evalToken(x, inp, p, e) == tokenLoop(x.str, 1, inp, p, e)

\* parser.evalRange
evalRange(x, inp, p, e) ==
    LET from == DecodeRuneInString(x.str)
        to == DecodeRuneInString(x.str2)
        n == nextRune(inp, p, e)
    IN IF n.r = eofRune
       THEN [ok |-> FALSE, pos |-> n.pos, eof |-> n.eof]
       ELSE [ok |-> from <= n.r /\ n.r <= to, pos |-> n.pos, eof |-> n.eof]

----------------------------------------------------------------------------
(* The interpreter as a machine over the call stack.  A frame is one       *)
(* activation: fn the function, x its expression argument, name its        *)
(* production argument, pc where it resumes, i the loop index, bak the      *)
(* local bak; entry records p.pos at the call, for the properties only.     *)

\* deepest call stack before the Go runtime aborts with a stack overflow
MaxStack == 48

Frame(fn, x, name) ==
    [fn |-> fn, x |-> x, name |-> name, pc |-> 0, i |-> 1, bak |-> 0,
     entry |-> pos]

Top == stack[Len(stack)]

Callers == SubSeq(stack, 1, Len(stack) - 1)

\* the frame on top of the stack belongs to fn and may take a step
Running(fn) ==
    /\ status = "run"
    /\ stack # <<>>
    /\ Len(stack) <= MaxStack
    /\ Top.fn = fn

\* the top frame becomes f and calls callee
CallFrom(f, callee) == stack' = Callers \o <<f, callee>>

\* the top frame returns v
ReturnValue(v) == stack' = Callers /\ retv' = v

\* the function evalExpr dispatches to
evalFn(x) ==
    CASE x.t = "Alternative" -> "evalAlt"
      [] x.t = "Sequence" -> "evalSeq"
      [] x.t = "Name" -> "evalName"
      [] x.t = "Token" -> "evalToken"
      [] x.t = "Range" -> "evalRange"
      [] x.t = "Group" -> "evalGroup"
      [] x.t = "Option" -> "evalOpt"
      [] x.t = "Repetition" -> "evalRep"

validatorVars == <<skipNames, verr, history>>

\* speak: ret := p.evalProd(p.grammar[start]); p.skip()
Speak ==
    /\ Running("speak")
    /\ IF Top.pc = 0
       THEN /\ CallFrom([Top EXCEPT !.pc = 1], Frame("evalProd", Nil, start))
            /\ UNCHANGED <<ret, status>>
       ELSE IF Top.pc = 1
       THEN /\ ret' = retv
            /\ CallFrom([Top EXCEPT !.pc = 2], Frame("skip", Nil, ""))
            /\ UNCHANGED status
       ELSE /\ stack' = Callers
            /\ status' = "done"
            /\ UNCHANGED ret
    /\ UNCHANGED <<grammar, start, input, pos, eof, skipping, retv>>
    /\ UNCHANGED validatorVars
    /\ UNCHANGED toolVars

\* skip without its guard
skipGuardOff(sk) == FALSE

\* if p.skipping { return }: whether skip returns at once
skipGuard(sk) == sk

\* skip without `p.pos = bak` after the attempt that did not match
SkipNoReset ==
    /\ Running("skip")
    /\ IF Top.pc = 0
       THEN IF skipGuard(skipping)
            THEN /\ stack' = Callers
                 /\ UNCHANGED skipping
            ELSE IF "skip" \in DOMAIN grammar
            THEN /\ skipping' = TRUE
                 /\ CallFrom([Top EXCEPT !.pc = 1, !.bak = pos],
                             Frame("evalExpr", grammar["skip"], ""))
            ELSE /\ skipping' = FALSE
                 /\ stack' = Callers
       ELSE IF ~retv
            THEN /\ skipping' = FALSE
                 /\ stack' = Callers
            ELSE /\ CallFrom([Top EXCEPT !.bak = pos],
                             Frame("evalExpr", grammar["skip"], ""))
                 /\ UNCHANGED skipping
    /\ UNCHANGED <<grammar, start, input, pos, eof, retv, ret, status>>
    /\ UNCHANGED validatorVars
    /\ UNCHANGED toolVars

\* parser.skip
Skip ==
    /\ Running("skip")
    /\ IF Top.pc = 0
       THEN IF skipGuard(skipping)
            THEN /\ stack' = Callers
                 /\ UNCHANGED <<pos, skipping>>
            ELSE IF "skip" \in DOMAIN grammar
            THEN /\ skipping' = TRUE
                 /\ CallFrom([Top EXCEPT !.pc = 1, !.bak = pos],
                             Frame("evalExpr", grammar["skip"], ""))
                 /\ UNCHANGED pos
            ELSE /\ skipping' = FALSE
                 /\ stack' = Callers
                 /\ UNCHANGED pos
       ELSE IF ~retv
            THEN /\ pos' = Top.bak
                 /\ skipping' = FALSE
                 /\ stack' = Callers
            ELSE /\ CallFrom([Top EXCEPT !.bak = pos],
                             Frame("evalExpr", grammar["skip"], ""))
                 /\ UNCHANGED <<pos, skipping>>
    /\ UNCHANGED <<grammar, start, input, eof, retv, ret, status>>
    /\ UNCHANGED validatorVars
    /\ UNCHANGED toolVars

\* parser.evalProd; a nil production (an undefined name) is dereferenced
EvalProd ==
    /\ Running("evalProd")
    /\ IF Top.pc = 0
       THEN IF Top.name \in DOMAIN grammar
            THEN /\ CallFrom([Top EXCEPT !.pc = 1],
                             Frame("evalExpr", grammar[Top.name], ""))
                 /\ UNCHANGED status
            ELSE /\ status' = "panic"
                 /\ UNCHANGED stack
       ELSE /\ stack' = Callers
            /\ UNCHANGED status
    /\ UNCHANGED <<grammar, start, input, pos, eof, skipping, retv, ret>>
    /\ UNCHANGED validatorVars
    /\ UNCHANGED toolVars

\* parser.evalExpr: skip, then the type switch; a nil expression falls into
\* the default case, which panics
EvalExpr ==
    /\ Running("evalExpr")
    /\ IF Top.pc = 0
       THEN /\ CallFrom([Top EXCEPT !.pc = 1], Frame("skip", Nil, ""))
            /\ UNCHANGED status
       ELSE IF Top.pc = 1
       THEN IF Top.x.t = "nil"
            THEN /\ status' = "panic"
                 /\ UNCHANGED stack
            ELSE /\ CallFrom([Top EXCEPT !.pc = 2],
                             Frame(evalFn(Top.x), Top.x, ""))
                 /\ UNCHANGED status
       ELSE /\ stack' = Callers
            /\ UNCHANGED status
    /\ UNCHANGED <<grammar, start, input, pos, eof, skipping, retv, ret>>
    /\ UNCHANGED validatorVars
    /\ UNCHANGED toolVars

\* evalAlt without `p.pos = bak` after a failed alternative
EvalAltNoReset ==
    /\ Running("evalAlt")
    /\ IF Top.pc = 0
       THEN IF Top.i > Len(Top.x.xs)
            THEN ReturnValue(FALSE)
            ELSE /\ CallFrom([Top EXCEPT !.pc = 1, !.bak = pos],
                             Frame("evalExpr", Top.x.xs[Top.i], ""))
                 /\ UNCHANGED retv
       ELSE IF retv
            THEN ReturnValue(TRUE)
            ELSE /\ stack' = Callers \o <<[Top EXCEPT !.pc = 0, !.i = Top.i + 1]>>
                 /\ UNCHANGED retv
    /\ UNCHANGED <<grammar, start, input, pos, eof, skipping, ret, status>>
    /\ UNCHANGED validatorVars
    /\ UNCHANGED toolVars

\* parser.evalAlt
EvalAlt ==
    /\ Running("evalAlt")
    /\ IF Top.pc = 0
       THEN IF Top.i > Len(Top.x.xs)
            THEN /\ ReturnValue(FALSE)
                 /\ UNCHANGED pos
            ELSE /\ CallFrom([Top EXCEPT !.pc = 1, !.bak = pos],
                             Frame("evalExpr", Top.x.xs[Top.i], ""))
                 /\ UNCHANGED <<pos, retv>>
       ELSE IF retv
            THEN /\ ReturnValue(TRUE)
                 /\ UNCHANGED pos
            ELSE /\ pos' = Top.bak
                 /\ stack' = Callers \o <<[Top EXCEPT !.pc = 0, !.i = Top.i + 1]>>
                 /\ UNCHANGED retv
    /\ UNCHANGED <<grammar, start, input, eof, skipping, ret, status>>
    /\ UNCHANGED validatorVars
    /\ UNCHANGED toolVars

\* evalSeq that goes on to the next child after a failed one
EvalSeqIgnoringFailure ==
    /\ Running("evalSeq")
    /\ IF Top.pc = 0
       THEN IF Top.i > Len(Top.x.xs)
            THEN ReturnValue(TRUE)
            ELSE /\ CallFrom([Top EXCEPT !.pc = 1],
                             Frame("evalExpr", Top.x.xs[Top.i], ""))
                 /\ UNCHANGED retv
       ELSE /\ stack' = Callers \o <<[Top EXCEPT !.pc = 0, !.i = Top.i + 1]>>
            /\ UNCHANGED retv
    /\ UNCHANGED <<grammar, start, input, pos, eof, skipping, ret, status>>
    /\ UNCHANGED validatorVars
    /\ UNCHANGED toolVars

\* parser.evalSeq
EvalSeq ==
    /\ Running("evalSeq")
    /\ IF Top.pc = 0
       THEN IF Top.i > Len(Top.x.xs)
            THEN ReturnValue(TRUE)
            ELSE /\ CallFrom([Top EXCEPT !.pc = 1],
                             Frame("evalExpr", Top.x.xs[Top.i], ""))
                 /\ UNCHANGED retv
       ELSE IF ~retv
            THEN ReturnValue(FALSE)
            ELSE /\ stack' = Callers \o <<[Top EXCEPT !.pc = 0, !.i = Top.i + 1]>>
                 /\ UNCHANGED retv
    /\ UNCHANGED <<grammar, start, input, pos, eof, skipping, ret, status>>
    /\ UNCHANGED validatorVars
    /\ UNCHANGED toolVars

\* parser.evalName
EvalName ==
    /\ Running("evalName")
    /\ IF Top.pc = 0
       THEN CallFrom([Top EXCEPT !.pc = 1], Frame("evalProd", Nil, Top.x.name))
       ELSE stack' = Callers
    /\ UNCHANGED <<grammar, start, input, pos, eof, skipping, retv, ret, status>>
    /\ UNCHANGED validatorVars
    /\ UNCHANGED toolVars

\* evalToken that consumes by re-slicing the input buffer
EvalTokenSlicing ==
    /\ Running("evalToken")
    /\ LET res == evalToken(Top.x, input, pos, eof)
       IN /\ input' = SubSeq(input, res.pos + 1, Len(input))
          /\ pos' = 0
          /\ eof' = res.eof
          /\ ReturnValue(res.ok)
    /\ UNCHANGED <<grammar, start, skipping, ret, status>>
    /\ UNCHANGED validatorVars
    /\ UNCHANGED toolVars

\* parser.evalToken
EvalToken ==
    /\ Running("evalToken")
    /\ LET res == evalToken(Top.x, input, pos, eof)
       IN /\ pos' = res.pos
          /\ eof' = res.eof
          /\ ReturnValue(res.ok)
    /\ UNCHANGED <<grammar, start, input, skipping, ret, status>>
    /\ UNCHANGED validatorVars
    /\ UNCHANGED toolVars

\* parser.evalRange
EvalRange ==
    /\ Running("evalRange")
    /\ LET res == evalRange(Top.x, input, pos, eof)
       IN /\ pos' = res.pos
          /\ eof' = res.eof
          /\ ReturnValue(res.ok)
    /\ UNCHANGED <<grammar, start, input, skipping, ret, status>>
    /\ UNCHANGED validatorVars
    /\ UNCHANGED toolVars

\* parser.evalGroup
EvalGroup ==
    /\ Running("evalGroup")
    /\ IF Top.pc = 0
       THEN CallFrom([Top EXCEPT !.pc = 1], Frame("evalExpr", Body(Top.x), ""))
       ELSE stack' = Callers
    /\ UNCHANGED <<grammar, start, input, pos, eof, skipping, retv, ret, status>>
    /\ UNCHANGED validatorVars
    /\ UNCHANGED toolVars

\* evalOpt that leaves the cursor where a failed body left it
posAfterBodyNoReset(ok, p, bak) == p

\* evalOpt once the body has returned ok: p.pos when evalOpt returns
posAfterBody(ok, p, bak) == IF ok THEN p ELSE bak

\* parser.evalOpt
EvalOpt ==
    /\ Running("evalOpt")
    /\ IF Top.pc = 0
       THEN IF eof
            THEN /\ ReturnValue(TRUE)
                 /\ UNCHANGED pos
            ELSE /\ CallFrom([Top EXCEPT !.pc = 1, !.bak = pos],
                             Frame("evalExpr", Body(Top.x), ""))
                 /\ UNCHANGED <<pos, retv>>
       ELSE /\ pos' = posAfterBody(retv, pos, Top.bak)
            /\ ReturnValue(TRUE)
    /\ UNCHANGED <<grammar, start, input, eof, skipping, ret, status>>
    /\ UNCHANGED validatorVars
    /\ UNCHANGED toolVars

\* evalRep without `p.pos = bak` after the failed attempt
EvalRepNoReset ==
    /\ Running("evalRep")
    /\ IF Top.pc = 0
       THEN IF eof
            THEN ReturnValue(TRUE)
            ELSE /\ CallFrom([Top EXCEPT !.pc = 1, !.bak = pos],
                             Frame("evalExpr", Body(Top.x), ""))
                 /\ UNCHANGED retv
       ELSE IF ~retv
            THEN ReturnValue(TRUE)
            ELSE /\ stack' = Callers \o <<[Top EXCEPT !.pc = 0]>>
                 /\ UNCHANGED retv
    /\ UNCHANGED <<grammar, start, input, pos, eof, skipping, ret, status>>
    /\ UNCHANGED validatorVars
    /\ UNCHANGED toolVars

\* parser.evalRep
EvalRep ==
    /\ Running("evalRep")
    /\ IF Top.pc = 0
       THEN IF eof
            THEN /\ ReturnValue(TRUE)
                 /\ UNCHANGED pos
            ELSE /\ CallFrom([Top EXCEPT !.pc = 1, !.bak = pos],
                             Frame("evalExpr", Body(Top.x), ""))
                 /\ UNCHANGED <<pos, retv>>
       ELSE IF ~retv
            THEN /\ pos' = Top.bak
                 /\ ReturnValue(TRUE)
            ELSE /\ stack' = Callers \o <<[Top EXCEPT !.pc = 0]>>
                 /\ UNCHANGED <<pos, retv>>
    /\ UNCHANGED <<grammar, start, input, eof, skipping, ret, status>>
    /\ UNCHANGED validatorVars
    /\ UNCHANGED toolVars

\* the Go runtime aborts the program when the call stack grows too deep
StackOverflow ==
    /\ status = "run"
    /\ Len(stack) > MaxStack
    /\ status' = "overflow"
    /\ UNCHANGED <<grammar, start, input, pos, eof, skipping, stack, retv, ret>>
    /\ UNCHANGED validatorVars
    /\ UNCHANGED toolVars

----------------------------------------------------------------------------
(* Grammars and inputs the interpreter is run on.                          *)

\* longest input
MaxLen == 3

TokB == Token(<<98>>)

TokAB == Token(<<97, 98>>)

TokSpace == Token(<<32>>)

\* the token "\u00e9", two bytes in the input
TokE == Token(<<233>>)

\* start bodies with a character outside ASCII, and the empty token
TokenBodies == {TokE, Sequence(<<TokA, TokE>>), Token(<<>>)}

ILeaves == {TokA, TokAB, Name("letter")}

IUnary(S) == {Group(x) : x \in S} \cup {Option(x) : x \in S}
                 \cup {Repetition(x) : x \in S}

IBinary(S) == {Alternative(<<x, y>>) : x, y \in S}
                  \cup {Sequence(<<x, y>>) : x, y \in S}

\* expressions one level above the leaves
IShallow == IUnary(ILeaves) \cup IBinary(ILeaves)

\* bodies of the start production
ProgramBodies ==
    ILeaves \cup IShallow
    \cup {Option(x) : x \in IShallow} \cup {Repetition(x) : x \in IShallow}
    \cup {Sequence(<<TokA, Repetition(TokA)>>),
          Alternative(<<TokA, TokB>>),
          Alternative(<<Sequence(<<TokA, Name("Program")>>), TokB>>),
          Sequence(<<Name("Program"), TokA>>),
          Sequence(<<TokA, Name("empty")>>),
          Option(Name("empty")),
          Nil}
    \cup TokenBodies

\* the lexical productions a start production may refer to
Lexicals ==
    [letter |-> Range(<<97>>, <<98>>), empty |-> Nil,
     choice |-> Alternative(<<TokA, TokB>>),
     tail |-> Option(Name("ident"))]

\* bodies of the skip production; Nil stands for a grammar without one
SkipBodies ==
    {Nil, TokSpace, Repetition(TokSpace),
     Sequence(<<TokSpace, Option(TokSpace)>>)}

\* the grammar of start body b with the lexical productions b names and the
\* skip production sb
IGrammar(b, sb) ==
    LET lex == NamesIn(b) \cap DOMAIN Lexicals
        D == {"Program"} \cup lex \cup (IF sb = Nil THEN {} ELSE {"skip"})
    IN [n \in D |-> IF n = "Program" THEN b
                    ELSE IF n = "skip" THEN sb ELSE Lexicals[n]]

ICandidates == {IGrammar(b, sb) : b \in ProgramBodies, sb \in SkipBodies}

\* main: the grammar passes ebnf.Verify with the skip production taken out
IGrammars ==
    {g \in ICandidates :
        Verify(WithoutProduction(g, "skip"), "Program") = {}}

InputBytes(g) ==
    IF "skip" \in DOMAIN g THEN {97, 32}
    ELSE IF g["Program"] \in TokenBodies THEN {97, 195, 169}
    ELSE {97, 98}

Inputs(g) == UNION {[1..k -> InputBytes(g)] : k \in 0..MaxLen}

Init ==
    /\ grammar \in IGrammars
    /\ start = "Program"
    /\ input \in Inputs(grammar)
    /\ pos = 0
    /\ eof = FALSE
    /\ skipping = FALSE
    /\ stack = <<Frame("speak", Nil, "")>>
    /\ retv = FALSE
    /\ ret = FALSE
    /\ status = "run"
    /\ skipNames = <<>>
    /\ verr = NoCall
    /\ history = <<>>
    /\ ToolsIdle

Next ==
    \/ Speak
    \/ Skip
    \/ EvalProd
    \/ EvalExpr
    \/ EvalAlt
    \/ EvalSeq
    \/ EvalName
    \/ EvalToken
    \/ EvalRange
    \/ EvalGroup
    \/ EvalOpt
    \/ EvalRep
    \/ StackOverflow

Spec == Init /\ [][Next]_vars

----------------------------------------------------------------------------
(* Terminal extraction: extract.Terminals and extract.Expr.  Map keys are  *)
(* Go strings, held as their bytes; a map is a function on its key set.    *)

\* the bytes of the production names of the model
Spelling ==
    [Program |-> <<80, 114, 111, 103, 114, 97, 109>>,
     Expr |-> <<69, 120, 112, 114>>,
     ident |-> <<105, 100, 101, 110, 116>>,
     letter |-> <<108, 101, 116, 116, 101, 114>>,
     digit |-> <<100, 105, 103, 105, 116>>,
     ws |-> <<119, 115>>]

\* the production name spelled by a key
NameOf(key) == CHOOSE n \in DOMAIN Spelling : Spelling[n] = key

RECURSIVE StringLess(_, _)
\* a < b on Go strings: bytewise lexicographic
StringLess(a, b) ==
    IF b = <<>> THEN FALSE
    ELSE IF a = <<>> THEN TRUE
    ELSE IF a[1] # b[1] THEN a[1] < b[1]
    ELSE StringLess(Tail(a), Tail(b))

RECURSIVE InsertString(_, _)
InsertString(k, sorted) ==
    IF sorted = <<>> THEN <<k>>
    ELSE IF StringLess(k, Head(sorted)) THEN <<k>> \o sorted
    ELSE <<Head(sorted)>> \o InsertString(k, Tail(sorted))

\* Terminals that leaves its key lists in the order of the map iteration
sortStringsOff(keys) == keys

RECURSIVE sortStrings(_)
\* sort.Strings
sortStrings(keys) ==
    IF keys = <<>> THEN <<>>
    ELSE InsertString(Head(keys), sortStrings(Tail(keys)))

\* `for key := range m` on a map with key set S visits the keys in any order
MapOrders(S) ==
    {f \in [1..Cardinality(S) -> S] :
        \A i, j \in 1..Cardinality(S) : f[i] = f[j] => i = j}

\* "[" + x.Begin.String + "-" + x.End.String + "]"
RangeKey(x) == <<91>> \o Encode(x.str) \o <<45>> \o Encode(x.str2) \o <<93>>

\* one assignment extract.<kind>s[key] = node
Assign(kind, key, node) == [kind |-> kind, key |-> key, node |-> node]

RECURSIVE exprList(_, _)
RECURSIVE extractExpr(_)
\* extract.Expr on the children of an Alternative or Sequence, from the i-th
exprList(xs, i) ==
    IF i > Len(xs) THEN <<>>
    ELSE extractExpr(xs[i]) \o exprList(xs, i + 1)

\* extract.Expr: the assignments to the three maps, in the order made
extractExpr(x) ==
    CASE x.t = "nil" -> <<>>
      [] x.t \in {"Alternative", "Sequence"} -> exprList(x.xs, 1)
      [] x.t = "Name" ->
            IF isLexical(x.name)
            THEN <<Assign("Name", Spelling[x.name], x)>>
            ELSE <<>>
      [] x.t = "Token" -> <<Assign("Token", Encode(x.str), x)>>
      [] x.t = "Range" -> <<Assign("Range", RangeKey(x), x)>>
      [] x.t \in {"Group", "Option", "Repetition"} -> extractExpr(Body(x))

\* the assignments made while walking production name; `at` tells the nodes
\* of one production apart (the maps hold pointers to nodes)
Tagged(name, as) ==
    [i \in 1..Len(as) |->
        [kind |-> as[i].kind, key |-> as[i].key, node |-> as[i].node,
         at |-> <<name, i>>]]

RECURSIVE AssignmentsAllProductions(_, _)
\* Terminals walking the lexical productions too
AssignmentsAllProductions(g, keys) ==
    IF keys = <<>> THEN <<>>
    ELSE Tagged(NameOf(Head(keys)), extractExpr(g[NameOf(Head(keys))]))
             \o AssignmentsAllProductions(g, Tail(keys))

RECURSIVE Assignments(_, _)
\* the loop over the sorted production keys: extract.Expr on the expression
\* of each production that is not lexical
Assignments(g, keys) ==
    IF keys = <<>> THEN <<>>
    ELSE (IF ~isLexical(NameOf(Head(keys)))
          THEN Tagged(NameOf(Head(keys)), extractExpr(g[NameOf(Head(keys))]))
          ELSE <<>>)
             \o Assignments(g, Tail(keys))

\* the map of one kind after the assignments: the last assignment to a key
\* stays
MapOf(as, kind) ==
    LET K == {as[i].key : i \in {j \in 1..Len(as) : as[j].kind = kind}}
    IN [k \in K |->
           as[CHOOSE i \in 1..Len(as) :
                  /\ as[i].kind = kind
                  /\ as[i].key = k
                  /\ \A j \in (i + 1)..Len(as) :
                         ~(as[j].kind = kind /\ as[j].key = k)]]

\* terms = append(terms, m[key]) for each key of the list
Listed(m, keys) == [i \in 1..Len(keys) |-> m[keys[i]]]

\* extract.Terminals: the lists it may return, one for each way the four
\* map iterations may go
Terminals(g) ==
    UNION
      {LET keys == sortStrings([i \in DOMAIN ko |-> Spelling[ko[i]]])
           as == Assignments(g, keys)
           names == MapOf(as, "Name")
           tokens == MapOf(as, "Token")
           ranges == MapOf(as, "Range")
       IN {Listed(names, sortStrings(no))
               \o Listed(tokens, sortStrings(to))
               \o Listed(ranges, sortStrings(ro)) :
              no \in MapOrders(DOMAIN names),
              to \in MapOrders(DOMAIN tokens),
              ro \in MapOrders(DOMAIN ranges)} :
         ko \in MapOrders(DOMAIN g)}

\* most calls of Terminals on one grammar
MaxCalls == 2

\* in place of the body of a production the grammar does not have
Absent == Node("absent", "", <<>>, <<>>, <<>>)

Range09 == Range(<<48>>, <<57>>)

\* letter { letter | digit }
IdentBody ==
    Sequence(<<Name("letter"),
               Repetition(Alternative(<<Name("letter"), Name("digit")>>))>>)

TProgramBodies ==
    {Name("ident"),
     Sequence(<<TokB, Name("ident"), TokA>>),
     Alternative(<<Name("ws"), Name("Expr"), TokAB>>),
     Repetition(Group(Option(TokA))),
     Sequence(<<RangeAZ, Name("ws"), Range09, Name("ident")>>),
     Sequence(<<TokA, TokB, TokA>>),
     Nil}

TExprBodies ==
    {Absent, TokA,
     Sequence(<<Name("ws"), TokB, Name("Program")>>),
     Alternative(<<RangeAZ, Range09, TokA>>),
     Option(Name("ident"))}

TIdentBodies == {Absent, IdentBody, TokB, Range09}

TWsBodies == {Absent, TokSpace, Name("letter")}

TGrammar(pb, eb, ib, wb) ==
    LET all == [Program |-> pb, Expr |-> eb, ident |-> ib, ws |-> wb]
    IN [n \in {m \in DOMAIN all : all[m] # Absent} |-> all[n]]

TGrammars ==
    {TGrammar(pb, eb, ib, wb) :
        pb \in TProgramBodies, eb \in TExprBodies,
        ib \in TIdentBodies, wb \in TWsBodies}

InitT ==
    /\ grammar \in TGrammars
    /\ start = "Program"
    /\ skipNames = <<>>
    /\ verr = NoCall
    /\ history = <<>>
    /\ input = <<>>
    /\ pos = 0
    /\ eof = FALSE
    /\ skipping = FALSE
    /\ stack = <<>>
    /\ retv = FALSE
    /\ ret = FALSE
    /\ status = "idle"
    /\ ToolsIdle

\* terms := Terminals(grammar)
ExtractTerminals ==
    /\ Len(terms) < MaxCalls
    /\ \E o \in Terminals(grammar) : terms' = Append(terms, o)
    /\ UNCHANGED <<grammar, start, source, parsed, re>>
    /\ UNCHANGED interpVars
    /\ UNCHANGED validatorVars

\* terminals.expr on the productions that are not lexical, in the order
\* `for name, prod := range grammar` visits them: the assignments to
\* terms.names and terms.tokens; where extract.Expr records a Range,
\* terminals.expr panics
extractTerms(g, ko) ==
    LET as == Assignments(g, [i \in DOMAIN ko |-> Spelling[ko[i]]])
    IN [panic |-> \E i \in 1..Len(as) : as[i].kind = "Range",
        names |-> MapOf(as, "Name"),
        tokens |-> MapOf(as, "Token")]

\* terms := extractTerms(grammar), of the speak command
ExtractTerms ==
    /\ status = "idle"
    /\ \E ko \in MapOrders(DOMAIN grammar) :
          IF extractTerms(grammar, ko).panic
          THEN /\ status' = "panic"
               /\ UNCHANGED retv
          ELSE /\ status' = "done"
               /\ retv' = [names |-> extractTerms(grammar, ko).names,
                           tokens |-> extractTerms(grammar, ko).tokens]
    /\ UNCHANGED <<grammar, start, input, pos, eof, skipping, stack, ret>>
    /\ UNCHANGED validatorVars
    /\ UNCHANGED toolVars

NextT == ExtractTerminals \/ ExtractTerms

SpecT == InitT /\ [][NextT]_vars

----------------------------------------------------------------------------
(* ebnf.Parse: the grammar parser over the tokens the scanner delivers.    *)
(* A token is its kind tok, its text lit and, for a string, its unquoted   *)
(* value val.  The parser state ps is the index i of the look-ahead token  *)
(* and the errors recorded so far.                                         *)

Ident(n) == [tok |-> "Ident", lit |-> n, val |-> <<>>]

String(lit, v) == [tok |-> "String", lit |-> lit, val |-> v]

\* punctuation; "ellipsis" is U+2026, "larrow" and "rarrow" the quotes
\* around an action
Punct(c) == [tok |-> c, lit |-> c, val |-> <<>>]

EOF == [tok |-> "EOF", lit |-> "", val |-> <<>>]

\* &Bad{...}: the node standing for a syntax error
Bad == Node("Bad", "", <<>>, <<>>, <<>>)

\* &Action{Expr: x, ...}
Action(x) == Node("Action", "", <<>>, <<>>, <<x>>)

\* p.tok, p.lit: the look-ahead token
Tok(toks, ps) == IF ps.i > Len(toks) THEN EOF ELSE toks[ps.i]

\* parser.next
next(toks, ps) ==
    [ps EXCEPT !.i = IF ps.i > Len(toks) THEN ps.i ELSE ps.i + 1]

\* newError(pos, msg)
Error(at, kind, arg) == [at |-> at, kind |-> kind, arg |-> arg]

\* parser.errorExpected(p.pos, msg)
errorExpected(toks, ps, msg) ==
    [ps EXCEPT !.errs = Append(ps.errs, Error(ps.i, "expected", msg))]

\* expect that reads on only when it found the expected token
expectFound(toks, ps, tok) ==
    IF Tok(toks, ps).tok # tok
    THEN errorExpected(toks, ps, tok)
    ELSE next(toks, ps)

\* parser.expect
expect(toks, ps, tok) ==
    IF Tok(toks, ps).tok # tok
    THEN next(toks, errorExpected(toks, ps, tok))
    ELSE next(toks, ps)

\* an expression and the parser state after parsing it
Parsed(x, ps) == [x |-> x, ps |-> ps]

\* parser.parseIdentifier
parseIdentifier(toks, ps) ==
    Parsed(Name(Tok(toks, ps).lit), expect(toks, ps, "Ident"))

\* parser.parseToken
parseToken(toks, ps) ==
    IF Tok(toks, ps).tok = "String"
    THEN Parsed(Token(Tok(toks, ps).val), next(toks, ps))
    ELSE Parsed(Token(<<>>), expect(toks, ps, "String"))

RECURSIVE parseAction(_, _)
\* parser.parseAction: skip to the closing quote
parseAction(toks, ps) ==
    IF Tok(toks, ps).tok \in {"EOF", "rarrow"} THEN ps
    ELSE parseAction(toks, next(toks, ps))

\* parseSequence that wraps a single term too
sequenceOfAlways(list) == Sequence(list)

\* parseSequence: no need for a sequence if len(list) < 2
sequenceOf(list) == IF Len(list) = 1 THEN list[1] ELSE Sequence(list)

\* parseExpression: no need for an Alternatives node if len(list) < 2
alternativeOf(list) == IF Len(list) = 1 THEN list[1] ELSE Alternative(list)

\* F applied to the value of e: a call result is computed once, then used
Bind(e, F(_)) == CHOOSE v \in {F(r) : r \in {e}} : TRUE

RECURSIVE parseTerm(_, _)
RECURSIVE termList(_, _, _)
RECURSIVE parseSequence(_, _)
RECURSIVE altList(_, _, _)
RECURSIVE parseExpression(_, _)

\* parser.parseTerm; returns nil if no term was found
parseTerm(toks, ps) ==
    LET tok == Tok(toks, ps).tok
        RangeTo(t) ==
            LET End(e) == Parsed(Range(t.x.str, e.x.str), e.ps)
            IN IF Tok(toks, t.ps).tok = "ellipsis"
               THEN Bind(parseToken(toks, next(toks, t.ps)), End)
               ELSE t
        Grouped(b) == Parsed(Group(b.x), expect(toks, b.ps, ")"))
        Optional(b) == Parsed(Option(b.x), expect(toks, b.ps, "]"))
        Repeated(b) == Parsed(Repetition(b.x), expect(toks, b.ps, "}"))
    IN CASE tok = "Ident" -> parseIdentifier(toks, ps)
         [] tok = "String" -> Bind(parseToken(toks, ps), RangeTo)
         [] tok = "(" -> Bind(parseExpression(toks, next(toks, ps)), Grouped)
         [] tok = "[" -> Bind(parseExpression(toks, next(toks, ps)), Optional)
         [] tok = "{" -> Bind(parseExpression(toks, next(toks, ps)), Repeated)
         [] OTHER -> Parsed(Nil, ps)

\* the loop of parseSequence: the terms up to the first nil
termList(toks, ps, list) ==
    LET TermsAfter(t) ==
            IF t.x = Nil THEN [list |-> list, ps |-> ps]
            ELSE termList(toks, t.ps, Append(list, t.x))
    IN Bind(parseTerm(toks, ps), TermsAfter)

\* parser.parseSequence
parseSequence(toks, ps) ==
    LET Collapsed(l) ==
            IF Len(l.list) = 0
            THEN Parsed(Bad, errorExpected(toks, l.ps, "term"))
            ELSE IF Tok(toks, l.ps).tok = "larrow"
            THEN Parsed(Action(sequenceOf(l.list)),
                        expect(toks, parseAction(toks, next(toks, l.ps)),
                               "rarrow"))
            ELSE Parsed(sequenceOf(l.list), l.ps)
    IN Bind(termList(toks, ps, <<>>), Collapsed)

\* the loop of parseExpression: one sequence, and another after each "|"
altList(toks, ps, list) ==
    LET AltsAfter(q) ==
            IF Tok(toks, q.ps).tok # "|"
            THEN [list |-> Append(list, q.x), ps |-> q.ps]
            ELSE altList(toks, next(toks, q.ps), Append(list, q.x))
    IN Bind(parseSequence(toks, ps), AltsAfter)

\* parser.parseExpression
parseExpression(toks, ps) ==
    LET Collapsed(l) == Parsed(alternativeOf(l.list), l.ps)
    IN Bind(altList(toks, ps, <<>>), Collapsed)

\* parser.parseProduction: the production, where it stands, and the state
\* after it
parseProduction(toks, ps) ==
    LET name == parseIdentifier(toks, ps)
        eq == expect(toks, name.ps, "=")
        Ended(expr) ==
            [name |-> name.x.name, expr |-> expr.x, at |-> ps.i,
             ps |-> expect(toks, expr.ps, ".")]
    IN IF Tok(toks, eq).tok # "."
       THEN Bind(parseExpression(toks, eq), Ended)
       ELSE Ended(Parsed(Nil, eq))

\* parse letting a later declaration replace an earlier one
declareOverwriting(g, errs, prod) ==
    [grammar |-> [n \in DOMAIN g \cup {prod.name} |->
                     IF n = prod.name THEN prod.expr ELSE g[n]],
     errs |-> errs]

\* the body of the loop of parse: the first production of a name enters the
\* grammar, a later one is reported
declare(g, errs, prod) ==
    IF prod.name \notin DOMAIN g
    THEN [grammar |-> WithProduction(g, prod.name, prod.expr), errs |-> errs]
    ELSE [grammar |-> g,
          errs |-> Append(errs, Error(prod.at, "declared already", prod.name))]

RECURSIVE parseLoop(_, _, _, _)
\* parser.parse: the loop over the productions up to the end of the source;
\* prods lists the productions in the order parsed
parseLoop(toks, ps, g, prods) ==
    LET Declared(prod) ==
            LET Continued(d) ==
                    parseLoop(toks, [i |-> prod.ps.i, errs |-> d.errs],
                              d.grammar,
                              Append(prods, [name |-> prod.name,
                                             expr |-> prod.expr,
                                             at |-> prod.at]))
            IN Bind(declare(g, prod.ps.errs, prod), Continued)
    IN IF Tok(toks, ps).tok = "EOF"
       THEN [grammar |-> g, errors |-> ps.errs, prods |-> prods]
       ELSE Bind(parseProduction(toks, ps), Declared)

parse(toks) == parseLoop(toks, [i |-> 1, errs |-> <<>>], <<>>, <<>>)

\* errorList.Err: nil (the empty list here) when no error was recorded
errorListErr(list) == list

\* Parse: the grammar and the error returned
Parse(src) ==
    LET OfTokens(toks) ==
            LET Result(r) ==
                    [grammar |-> r.grammar, errors |-> errorListErr(r.errors)]
            IN Bind(parse(toks), Result)
    IN Bind(src, OfTokens)

----------------------------------------------------------------------------
(* Grammar sources ebnf.Parse is run on.  A source is a list of            *)
(* productions; a production is written from its name and its shape: the   *)
(* list of its alternatives, each the list of its terms.                   *)

\* most productions in one source
MaxProds == 3

Term(k, name, val, val2, alts) ==
    [k |-> k, name |-> name, val |-> val, val2 |-> val2, alts |-> alts]

\* the term `x`
TermX == Term("name", "x", <<>>, <<>>, <<>>)

\* the term `"a"`
TermA == Term("token", "", <<97>>, <<>>, <<>>)

\* the term `"a" ... "z"`
TermAZ == Term("range", "", <<97>>, <<122>>, <<>>)

\* the term ( alts ), [ alts ] or { alts }
Bracket(k, alts) == Term(k, "", <<>>, <<>>, alts)

Quoted(v) == IF v = <<97>> THEN String("\"a\"", v) ELSE String("\"z\"", v)

RECURSIVE WriteTerm(_)
RECURSIVE WriteSeq(_)
RECURSIVE WriteAlts(_)

\* the tokens of a term
WriteTerm(t) ==
    CASE t.k = "name" -> <<Ident(t.name)>>
      [] t.k = "token" -> <<Quoted(t.val)>>
      [] t.k = "range" -> <<Quoted(t.val), Punct("ellipsis"), Quoted(t.val2)>>
      [] t.k = "group" -> <<Punct("(")>> \o WriteAlts(t.alts) \o <<Punct(")")>>
      [] t.k = "option" -> <<Punct("[")>> \o WriteAlts(t.alts) \o <<Punct("]")>>
      [] t.k = "repetition" ->
            <<Punct("{")>> \o WriteAlts(t.alts) \o <<Punct("}")>>

\* the tokens of the terms of one alternative, side by side
WriteSeq(ts) ==
    IF ts = <<>> THEN <<>> ELSE WriteTerm(Head(ts)) \o WriteSeq(Tail(ts))

\* the tokens of the alternatives, "|" between them
WriteAlts(alts) ==
    IF alts = <<>> THEN <<>>
    ELSE IF Len(alts) = 1 THEN WriteSeq(alts[1])
    ELSE WriteSeq(Head(alts)) \o <<Punct("|")>> \o WriteAlts(Tail(alts))

\* the production `name = alts .`
Written(name, alts) ==
    [name |-> name, alts |-> alts, wf |-> TRUE,
     toks |-> <<Ident(name), Punct("=")>> \o WriteAlts(alts) \o <<Punct(".")>>]

\* `A = ( x .`: the closing parenthesis is missing
Unbalanced ==
    [name |-> "A", alts |-> <<>>, wf |-> FALSE,
     toks |-> <<Ident("A"), Punct("="), Punct("("), Ident("x"), Punct(".")>>]

\* `b = x << x >> .`: a term followed by an action
WithAction ==
    [name |-> "b", alts |-> <<>>, wf |-> FALSE,
     toks |-> <<Ident("b"), Punct("="), Ident("x"), Punct("larrow"),
                Ident("x"), Punct("rarrow"), Punct(".")>>]

InnerAlts ==
    {<< <<>> >>, << <<TermX>> >>, << <<TermX, TermA>> >>,
     << <<TermX>>, <<TermA>> >>, << <<TermX, TermA>>, <<>> >>}

BracketTerms ==
    {Bracket(k, ia) : k \in {"group", "option", "repetition"}, ia \in InnerAlts}

TopSeqs ==
    {<<TermX>>, <<TermA>>, <<TermAZ>>, <<TermX, TermA>>,
     <<TermA, TermAZ, TermX>>}
    \cup {<<b>> : b \in BracketTerms}
    \cup {<<TermX, b>> : b \in BracketTerms}

SmallSeqs ==
    {<<>>, <<TermX>>, <<TermX, TermA>>,
     <<Bracket("group", << <<TermX>>, <<TermA>> >>)>>}

\* the shapes of the productions of the one-production sources
Shapes ==
    {<<>>}
    \cup {<<q>> : q \in TopSeqs}
    \cup {<<q, r>> : q, r \in SmallSeqs}
    \cup {<< <<TermX>>, <<TermA>>, <<TermAZ, TermX>> >>}

\* the productions of the sources with several productions
Redeclared ==
    {Written(n, a) : n \in {"A", "b"},
                     a \in {<<>>, << <<TermA>> >>, << <<TermX, TermA>> >>}}
    \cup {Unbalanced, WithAction}

Sources ==
    {<<Written("A", a)>> : a \in Shapes}
    \cup UNION {[1..k -> Redeclared] : k \in 2..MaxProds}

RECURSIVE Tokens(_)
\* the tokens of a source
Tokens(src) ==
    IF src = <<>> THEN <<>> ELSE Head(src).toks \o Tokens(Tail(src))

InitP ==
    /\ source \in Sources
    /\ parsed = [grammar |-> <<>>, errors |-> <<>>]
    /\ terms = <<>>
    /\ re = <<>>
    /\ grammar = <<>>
    /\ start = "Program"
    /\ skipNames = <<>>
    /\ verr = NoCall
    /\ history = <<>>
    /\ input = <<>>
    /\ pos = 0
    /\ eof = FALSE
    /\ skipping = FALSE
    /\ stack = <<>>
    /\ retv = FALSE
    /\ ret = FALSE
    /\ status = "idle"

\* grammar, err := ebnf.Parse(filename, src)
ParseSource ==
    /\ status = "idle"
    /\ parsed' = Parse(Tokens(source))
    /\ grammar' = parsed'.grammar
    /\ status' = "parsed"
    /\ UNCHANGED <<start, source, terms, re, input, pos, eof, skipping, stack,
                   retv, ret>>
    /\ UNCHANGED validatorVars

NextP == ParseSource

SpecP == InitP /\ [][NextP]_vars

----------------------------------------------------------------------------
(* The regular expression of a terminal: RegexpString and hasAlternatives. *)
(* A regular expression string is held as its bytes.                       *)

\* hasAlternatives that does not look up the production of a Name
hasAlternativesDirect(g, x) == x.t = "Alternative"

RECURSIVE hasAlternatives(_, _)
\* hasAlternatives: the expression is an Alternative, or a name of one
hasAlternatives(g, x) ==
    CASE x.t = "Name" -> hasAlternatives(g, g[x.name])
      [] x.t = "Alternative" -> TRUE
      [] OTHER -> FALSE

\* "(" + s + ")"
InParens(str) == <<40>> \o str \o <<41>>

RECURSIVE Join(_, _)
\* strings.Join
Join(ss, sep) ==
    IF ss = <<>> THEN <<>>
    ELSE IF Len(ss) = 1 THEN ss[1]
    ELSE ss[1] \o sep \o Join(Tail(ss), sep)

RECURSIVE RegexpString(_, _)
\* RegexpString
RegexpString(g, x) ==
    LET \* s, put in parentheses if the expression it is of has alternatives
        Scoped(e) == IF hasAlternatives(g, e)
                     THEN InParens(RegexpString(g, e))
                     ELSE RegexpString(g, e)
    IN CASE x.t = "nil" -> <<>>
         [] x.t = "Alternative" ->
               Join([i \in 1..Len(x.xs) |-> RegexpString(g, x.xs[i])], <<124>>)
         [] x.t = "Sequence" ->
               Join([i \in 1..Len(x.xs) |-> Scoped(x.xs[i])], <<>>)
         [] x.t = "Name" -> RegexpString(g, g[x.name])
         [] x.t = "Token" -> Encode(x.str)
         [] x.t = "Range" -> RangeKey(x)
         [] x.t = "Group" -> InParens(RegexpString(g, Body(x)))
         [] x.t = "Option" -> Scoped(Body(x)) \o <<63>>
         [] x.t = "Repetition" -> Scoped(Body(x)) \o <<42>>

RECURSIVE RegexpStringReenters(_, _, _)
\* RegexpString on x, called while translating the productions of `open`,
\* comes to the Name of one of them again.  It keeps no record of the names
\* it is in and depends on its arguments alone, so the call repeats itself
\* without end until the Go runtime aborts with a stack overflow.
RegexpStringReenters(g, x, open) ==
    CASE x.t = "Name" ->
            \/ x.name \in open
            \/ RegexpStringReenters(g, g[x.name], open \cup {x.name})
      [] x.t \in {"Alternative", "Sequence", "Group", "Option", "Repetition"} ->
            \E i \in 1..Len(x.xs) : RegexpStringReenters(g, x.xs[i], open)
      [] OTHER -> FALSE

\* bodies of the lexical production that is interpreted and compiled
TermBodies ==
    {TokA, TokAB, Range(<<97>>, <<98>>), Name("letter"),
     Alternative(<<TokA, TokB>>),
     Alternative(<<TokA, TokAB>>),
     Sequence(<<TokA, TokB>>),
     Sequence(<<Alternative(<<TokA, TokB>>), TokA>>),
     Sequence(<<Option(TokA), TokB>>),
     Sequence(<<Repetition(TokA), TokA>>),
     Sequence(<<Name("letter"), Repetition(Name("letter"))>>),
     Group(Alternative(<<TokA, TokB>>)),
     Option(TokA),
     Option(Alternative(<<TokA, TokB>>)),
     Option(Sequence(<<TokA, TokB>>)),
     Repetition(TokA),
     Repetition(Alternative(<<TokA, TokB>>)),
     Repetition(Sequence(<<TokA, TokB>>)),
     Repetition(Group(Sequence(<<TokA, TokB>>))),
     Name("choice"),
     Sequence(<<Name("choice"), TokA>>),
     Option(Name("choice")),
     Repetition(Name("choice")),
     Group(Name("choice")),
     Alternative(<<Name("choice"), TokAB>>),
     Alternative(<<TokB, Sequence(<<TokA, Name("ident")>>)>>),
     Sequence(<<TokA, Name("tail")>>)}

\* `Program = ident .  ident = b .` with the lexical production b names
TermGrammar(b) ==
    [n \in {"Program", "ident"} \cup (NamesIn(b) \cap DOMAIN Lexicals) |->
        IF n = "Program" THEN Name("ident")
        ELSE IF n = "ident" THEN b ELSE Lexicals[n]]

\* the grammars among them that validate accepts
TermGrammars ==
    {g \in {TermGrammar(b) : b \in TermBodies} :
        \E o \in validate(g, "Program", <<>>) : o.err.kind = "ok"}

InitR ==
    /\ grammar \in TermGrammars
    /\ start = "ident"
    /\ input \in UNION {[1..k -> {97, 98}] : k \in 0..MaxLen}
    /\ pos = 0
    /\ eof = FALSE
    /\ skipping = FALSE
    /\ stack = <<Frame("speak", Nil, "")>>
    /\ retv = FALSE
    /\ ret = FALSE
    /\ status = "idle"
    /\ skipNames = <<>>
    /\ verr = NoCall
    /\ history = <<>>
    /\ ToolsIdle

\* re := RegexpString(grammar, term) for the terminal `start`, before the
\* production is interpreted; a recursion without end overflows the stack
CompileRegexp ==
    /\ status = "idle"
    /\ IF RegexpStringReenters(grammar, Name(start), {})
       THEN /\ status' = "overflow"
            /\ UNCHANGED re
       ELSE /\ re' = RegexpString(grammar, Name(start))
            /\ status' = "run"
    /\ UNCHANGED <<grammar, start, input, pos, eof, skipping, stack, retv, ret,
                   terms, source, parsed>>
    /\ UNCHANGED validatorVars

NextR ==
    \/ CompileRegexp
    \/ Speak
    \/ Skip
    \/ EvalProd
    \/ EvalExpr
    \/ EvalAlt
    \/ EvalSeq
    \/ EvalName
    \/ EvalToken
    \/ EvalRange
    \/ EvalGroup
    \/ EvalOpt
    \/ EvalRep

SpecR == InitR /\ [][NextR]_vars

----------------------------------------------------------------------------
(* Properties of the interpreter.                                          *)

\* the input consists of characters 'a' only
AllA(inp) == \A k \in 1..Len(inp) : inp[k] = 97

\* C1: for the grammar `Program = "a" { "a" } .` and an input of n >= 1
\* characters 'a', speak ends with ret = true and the cursor at n.
C1_ProgramMatchesAll ==
    /\ grammar = [Program |-> Sequence(<<TokA, Repetition(TokA)>>)]
    /\ Len(input) >= 1
    /\ AllA(input)
    /\ status = "done"
    => ret = TRUE /\ pos = Len(input)

\* "aaa" has been interpreted: matched, 3 consumed
C1_Witness ==
    /\ grammar = [Program |-> Sequence(<<TokA, Repetition(TokA)>>)]
    /\ input = <<97, 97, 97>>
    /\ status = "done"
    /\ ret = TRUE
    /\ pos = 3

\* evalOpt is on top of the stack and returns in this step
OptReturns ==
    /\ status = "run"
    /\ stack # <<>>
    /\ Top.fn = "evalOpt"
    /\ Len(stack') < Len(stack)

\* C2: whenever evalOpt returns, in any grammar, on any input, at any cursor
\* and with any value of eof and skipping, it returns true; when its body was
\* attempted and failed, the cursor is back where it was when evalOpt was
\* entered.
C2_OptionSucceeds ==
    [][OptReturns =>
          /\ retv' = TRUE
          /\ (Top.pc = 1 /\ ~retv) => pos' = Top.entry]_vars

\* `Program = [ "ab" ] .` on "aa": the body consumed two bytes and failed,
\* the Option matched with the cursor back at 0
C2_Witness ==
    /\ grammar = [Program |-> Option(TokAB)]
    /\ input = <<97, 97>>
    /\ status = "done"
    /\ ret = TRUE
    /\ pos = 0

\* the activations of skip that are past the guard, evaluating the skip
\* production
SkipLoops == {k \in 1..Len(stack) : stack[k].fn = "skip" /\ stack[k].pc = 1}

\* skip is called while a skip evaluation is in progress
NestedSkipCall ==
    /\ status = "run"
    /\ stack # <<>>
    /\ Len(stack) <= MaxStack
    /\ Top.fn = "skip"
    /\ Top.pc = 0
    /\ skipping

\* C3: a call of skip made while the skip production is being evaluated
\* returns at once, evaluating nothing and leaving the cursor alone, so at
\* most one activation of skip is ever evaluating the skip production.
C3_SkipNotReentrant ==
    /\ [](Cardinality(SkipLoops) <= 1)
    /\ [][NestedSkipCall =>
             /\ stack' = Callers
             /\ pos' = pos
             /\ skipping' = skipping]_vars

\* the skip production is being evaluated and its evalExpr has called skip
C3_Witness ==
    /\ NestedSkipCall
    /\ Cardinality(SkipLoops) = 1
    /\ \E k \in SkipLoops : k < Len(stack) /\ stack[k + 1].fn = "evalExpr"

\* C11: no step of the interpreter (speak, skip, evalProd, evalExpr, the
\* eval* of each node kind, nextRune inside the leaf evaluators) changes the
\* grammar, the start name or the input buffer; what changes is the cursor,
\* the end-of-input flag and the skip flag of the parser (and the call stack
\* with its locals and results).
C11_GrammarInputFrozen ==
    [][/\ grammar' = grammar
       /\ input' = input
       /\ start' = start]_vars

\* a parse with a skip production has run to its end: the cursor moved, the
\* end of input was met and skip has cleared its flag again
C11_Witness ==
    /\ status = "done"
    /\ "skip" \in DOMAIN grammar
    /\ Len(input) = MaxLen
    /\ pos = Len(input)
    /\ eof
    /\ ~skipping

\* the activation on top of the stack belongs to fn and takes this step
StepOf(fn) ==
    /\ status = "run"
    /\ stack # <<>>
    /\ Len(stack) <= MaxStack
    /\ Top.fn = fn

\* this step calls evalExpr on e and leaves the cursor alone
Evaluates(e) ==
    /\ Len(stack') = Len(stack) + 1
    /\ stack'[Len(stack')].fn = "evalExpr"
    /\ stack'[Len(stack')].x = e
    /\ pos' = pos

\* this step returns v to the caller
Returns(v) == stack' = Callers /\ retv' = v

\* C17: evalAlt tries its children in list order, each attempt starting at the
\* cursor position evalAlt was entered with; at the first child that succeeds
\* it returns true without evaluating a later child; it returns false only
\* after every child has failed, and then the cursor is at the entry position.
\* `Program = "a" | "b" .` on "b" matches with the cursor at 1.
C17_AltOrderedChoice ==
    /\ []((/\ grammar = [Program |-> Alternative(<<TokA, TokB>>)]
           /\ input = <<98>>
           /\ status = "done") => (ret = TRUE /\ pos = 1))
    /\ [][StepOf("evalAlt") =>
             IF Top.pc = 0 /\ Top.i <= Len(Top.x.xs)
             THEN /\ pos = Top.entry
                  /\ Evaluates(Top.x.xs[Top.i])
             ELSE IF Top.pc = 0
             THEN /\ Returns(FALSE)
                  /\ pos' = Top.entry
             ELSE IF retv
             THEN /\ Returns(TRUE)
                  /\ pos' = pos
             ELSE /\ stack' = Callers \o <<[Top EXCEPT !.pc = 0, !.i = Top.i + 1]>>
                  /\ pos' = Top.entry]_vars

\* `Program = "a" | "b" .` on "b": the first alternative consumed the 'b' and
\* failed, the second matched it from position 0
C17_Witness ==
    /\ grammar = [Program |-> Alternative(<<TokA, TokB>>)]
    /\ input = <<98>>
    /\ status = "done"
    /\ ret = TRUE
    /\ pos = 1

\* C18: evalRep returns true whenever it returns; it attempts its body again
\* after each successful attempt; at the first failed attempt it puts the
\* cursor back to where that attempt started and returns; when the end of
\* input has been met it returns without a further attempt, the cursor
\* staying where the last successful attempt left it.
C18_RepetitionSucceeds ==
    [][StepOf("evalRep") =>
          IF Top.pc = 0 /\ ~eof
          THEN /\ Evaluates(Body(Top.x))
               /\ stack'[Len(stack)].bak = pos
          ELSE IF Top.pc = 0
          THEN /\ Returns(TRUE)
               /\ pos' = pos
          ELSE IF ~retv
          THEN /\ Returns(TRUE)
               /\ pos' = Top.bak
          ELSE /\ stack' = Callers \o <<[Top EXCEPT !.pc = 0]>>
               /\ pos' = pos]_vars

\* `Program = { "ab" } .` on "aba": one successful attempt, then an attempt
\* that consumed the last 'a' and failed; the cursor is back at 2
C18_Witness ==
    /\ grammar = [Program |-> Repetition(TokAB)]
    /\ input = <<97, 98, 97>>
    /\ status = "done"
    /\ ret = TRUE
    /\ pos = 2

\* C19: evalSeq evaluates its children in list order; it returns true exactly
\* when every child has returned true; at the first child that fails it
\* returns false without evaluating a later child and without moving the
\* cursor from where that child left it.
C19_SequenceNoRollback ==
    [][StepOf("evalSeq") =>
          IF Top.pc = 0 /\ Top.i <= Len(Top.x.xs)
          THEN Evaluates(Top.x.xs[Top.i])
          ELSE IF Top.pc = 0
          THEN /\ Returns(TRUE)
               /\ pos' = pos
          ELSE IF ~retv
          THEN /\ Returns(FALSE)
               /\ pos' = pos
          ELSE /\ stack' = Callers \o <<[Top EXCEPT !.pc = 0, !.i = Top.i + 1]>>
               /\ pos' = pos]_vars

\* `Program = "a" "ab" .` on "aaa": the second child consumed two bytes and
\* failed; the sequence failed with the cursor left at 3
C19_Witness ==
    /\ grammar = [Program |-> Sequence(<<TokA, TokAB>>)]
    /\ input = <<97, 97, 97>>
    /\ status = "done"
    /\ ret = FALSE
    /\ pos = 3

\* the input from position p on begins with the bytes bs
HasPrefixAt(inp, p, bs) ==
    /\ p + Len(bs) <= Len(inp)
    /\ \A k \in 1..Len(bs) : inp[p + k] = bs[k]

\* the number of leading runes of str the input has at position p
MatchedRunes(str, inp, p) ==
    CHOOSE k \in 0..Len(str) :
        /\ HasPrefixAt(inp, p, Encode(SubSeq(str, 1, k)))
        /\ k < Len(str) => ~HasPrefixAt(inp, p, Encode(SubSeq(str, 1, k + 1)))

\* C20: evalToken returns true exactly when the input at the cursor begins
\* with the bytes of the token, and then the cursor has advanced by the length
\* of those bytes; when it returns false the cursor is not put back: it stands
\* behind the matching leading characters and behind the one mismatching
\* character that was read, or at the end of the input.
C20_TokenExact ==
    [][StepOf("evalToken") =>
          LET str == Top.x.str
              at == pos + Len(Encode(SubSeq(str, 1, MatchedRunes(str, input, pos))))
          IN IF HasPrefixAt(input, pos, Encode(str))
             THEN /\ Returns(TRUE)
                  /\ pos' = pos + Len(Encode(str))
             ELSE /\ Returns(FALSE)
                  /\ pos' = IF at >= Len(input) THEN at
                            ELSE at + DecodeRune(input, at).size]_vars

\* `Program = "a" "\u00e9" .` on the bytes 61 c3 a9: both tokens matched,
\* the second advancing the cursor by two bytes
C20_Witness ==
    /\ grammar = [Program |-> Sequence(<<TokA, TokE>>)]
    /\ input = <<97, 195, 169>>
    /\ status = "done"
    /\ ret = TRUE
    /\ pos = 3

\* a leaf evaluator (evalToken, evalRange) takes this step
LeafStep == StepOf("evalToken") \/ StepOf("evalRange")

\* C21: once the end of input has been observed (p.eof is set), every later
\* evaluation of an expression reports success and leaves the cursor where it
\* is; here for the leaves every evaluation ends in, in grammars without a
\* skip production (so that p.eof at the leaf is p.eof at its evalExpr).
C21_EofShortCircuit ==
    [][(LeafStep /\ eof /\ "skip" \notin DOMAIN grammar) =>
          /\ Returns(TRUE)
          /\ pos' = pos]_vars

\* C22: with a production named skip, every evalExpr called outside a skip
\* evaluation first calls skip, which evaluates the skip production again
\* after each attempt that matched; the attempt that does not match is rolled
\* back, so skip returns with the cursor where the last matching attempt left
\* it (at the entry position if none matched); evalExpr goes on to its
\* expression whatever skip found.
C22_SkipLoop ==
    /\ [][(StepOf("skip") /\ "skip" \in DOMAIN grammar /\ ~(Top.pc = 0 /\ skipping)) =>
             IF Top.pc = 0 \/ retv
             THEN /\ Evaluates(grammar["skip"])
                  /\ stack'[Len(stack)].bak = pos
                  /\ skipping'
             ELSE /\ stack' = Callers
                  /\ pos' = Top.bak
                  /\ ~skipping']_vars
    /\ [][(StepOf("evalExpr") /\ Top.x.t # "nil") =>
             IF Top.pc = 0
             THEN /\ Len(stack') = Len(stack) + 1
                  /\ stack'[Len(stack')].fn = "skip"
             ELSE IF Top.pc = 1
             THEN /\ Len(stack') = Len(stack) + 1
                  /\ stack'[Len(stack')].fn = evalFn(Top.x)
                  /\ stack'[Len(stack')].x = Top.x
                  /\ pos' = pos
             ELSE /\ stack' = Callers
                  /\ retv' = retv
                  /\ pos' = pos]_vars

\* `skip = " " .` on " a": the first attempt matched the blank, the second
\* consumed the 'a' and did not match; skip is about to put the cursor back
\* to 1
C22_Witness ==
    /\ status = "run"
    /\ stack # <<>>
    /\ Top.fn = "skip"
    /\ Top.pc = 1
    /\ grammar["skip"] = TokSpace
    /\ input = <<32, 97>>
    /\ ~retv
    /\ Top.bak = 1
    /\ pos = 2

\* C23: evaluating an Empty expression (the nil body of `Name = .`) succeeds
\* without consuming input, as the body of the start production and as the
\* body of a production reached through a Name: evalExpr, past skip, returns
\* true to its caller with the cursor where it was.
C23_EmptySucceeds ==
    [][(StepOf("evalExpr") /\ Top.pc = 1 /\ Top.x.t = "nil") =>
          /\ status' = "run"
          /\ Returns(TRUE)
          /\ pos' = pos]_vars

\* C25: in every state of the interpreter, p.eof set implies the cursor is at
\* the end of the input; the flag does not stay set once a rollback (evalAlt,
\* evalOpt, evalRep, skip) has put the cursor back before the end.
C25_EofAtEnd == eof => pos >= Len(input)

\* C26: evaluating a Repetition terminates: every attempt of the body after
\* which the loop of evalRep goes on has moved the cursor forward, also when
\* the body succeeds without consuming input.
C26_RepetitionAdvances ==
    [][(StepOf("evalRep") /\ Top.pc = 1 /\ retv) => pos > Top.bak]_vars

\* C27: every call of skip terminates: every attempt of the skip production
\* that matched, after which the loop of skip goes on, has moved the cursor
\* forward, also when the skip production matches the empty string and when
\* the cursor is at the end of the input.
C27_SkipAdvances ==
    [][(StepOf("skip") /\ Top.pc = 1 /\ retv) => pos > Top.bak]_vars

----------------------------------------------------------------------------
(* Properties of validate.                                                 *)

\* the calls of validate made so far
ValidateCalls == {i \in 1..Len(history) : history[i].op = "validate"}

\* the call of validate that has just returned, if the last call was one;
\* every call of validate is the last call of the state it returns to
Returned == IF LastOp = "validate" THEN {Len(history)} ELSE {}

\* some chain of Name references leads from a production of roots to n
PathTo(g, roots, n) ==
    \E k \in 1..Cardinality(DOMAIN g) : \E p \in [1..k -> DOMAIN g] :
        /\ p[1] \in roots
        /\ p[k] = n
        /\ \A j \in 1..(k - 1) : p[j + 1] \in NamesIn(g[p[j]])

\* the names without a production that a production reachable from st mentions
UndefinedFrom(g, st) ==
    {m \in UNION {NamesIn(g[n]) : n \in {q \in DOMAIN g : PathTo(g, {st}, q)}} :
        m \notin DOMAIN g}

SkipSet(sk) == {sk[i] : i \in 1..Len(sk)}

\* C4: a grammar in which a production reachable from start mentions a name
\* without a production is never accepted by validate, and when validate gets
\* as far as the closure check the error cites each such name.
C4_UndefinedRejected ==
    \A i \in Returned :
        LET c == history[i]
        IN UndefinedFrom(c.before, start) # {} =>
              /\ c.err.kind # "ok"
              /\ c.err.kind = "verify" =>
                    \A m \in UndefinedFrom(c.before, start) :
                        VErr("missing production", m) \in c.err.errs

\* `Program = Foo .` with Foo undefined has been rejected, citing Foo
C4_Witness ==
    \E i \in ValidateCalls :
        /\ history[i].before = [Program |-> Name("Foo")]
        /\ history[i].err.kind = "verify"
        /\ VErr("missing production", "Foo") \in history[i].err.errs

\* C5: when validate accepted a grammar and a production is added that is
\* not reachable from start and not named in skip, the next validate reports
\* that production as unreachable; when the production is removed again, the
\* validate after that accepts the grammar.
C5_AddRemoveUnreachable ==
    \A i \in {j \in ValidateCalls : j + 2 = Len(history) \/ j + 4 = Len(history)} :
        LET ok == history[i]
        IN /\ ok.err.kind = "ok"
           /\ i + 2 <= Len(history)
           /\ history[i + 1].op = "add"
           /\ ~PathTo(history[i + 1].after, {start}, history[i + 1].name)
           /\ history[i + 1].name \notin SkipSet(skipNames)
           /\ history[i + 2].op = "validate"
           => /\ history[i + 2].err.kind = "verify"
              /\ VErr("is unreachable", history[i + 1].name)
                    \in history[i + 2].err.errs
              /\ ( /\ i + 4 <= Len(history)
                   /\ history[i + 3].op = "remove"
                   /\ history[i + 3].name = history[i + 1].name
                   /\ history[i + 4].op = "validate"
                   => history[i + 4].err.kind = "ok" )

\* accepted, production added, rejected as unreachable, removed, accepted
C5_Witness ==
    /\ Len(history) = 5
    /\ history[1].op = "validate" /\ history[1].err.kind = "ok"
    /\ history[2].op = "add"
    /\ history[3].op = "validate" /\ history[3].err.kind = "verify"
    /\ history[4].op = "remove" /\ history[4].name = history[2].name
    /\ history[5].op = "validate" /\ history[5].err.kind = "ok"
    /\ skipNames # <<>>

\* the grammar has no defect other than productions not reachable from start
NoOtherDefect(g, st, sk) ==
    /\ st \in DOMAIN g
    /\ \A s \in SkipSet(sk) : isLexical(s) /\ s \in DOMAIN g
    /\ \A n \in DOMAIN g : \A m \in NamesIn(g[n]) :
          m \in DOMAIN g /\ (isLexical(n) => isLexical(m))
    /\ \A n \in DOMAIN g : \A r \in RangesIn(g[n]) :
          isLexical(n) /\ ~BadRange(r)

\* C6: a grammar whose only productions not reachable from start are skip
\* productions (lexical, defined, named in skip) and productions reachable
\* from them, and which has no other defect, is accepted by validate.
C6_SkipExempt ==
    \A i \in Returned :
        LET g == history[i].before
        IN /\ NoOtherDefect(g, start, skipNames)
           /\ \E s \in SkipSet(skipNames) : ~PathTo(g, {start}, s)
           /\ \A n \in DOMAIN g : PathTo(g, {start} \cup SkipSet(skipNames), n)
           => history[i].err.kind = "ok"

\* accepted: skip is reachable only through the skip list, ws only from skip
C6_Witness ==
    \E i \in ValidateCalls :
        /\ history[i].before =
              [Program |-> TokA, skip |-> Name("ws"), ws |-> TokA]
        /\ skipNames = <<"skip">>
        /\ history[i].err.kind = "ok"

\* some skip name is not lexical or has no production
BadSkip(g, sk) == \E s \in SkipSet(sk) : ~isLexical(s) \/ s \notin DOMAIN g

\* C7: when a skip name is not lexical or has no production, validate
\* returns an error and leaves the grammar, the start production included, as
\* it found it.
C7_BadSkipRejected ==
    \A i \in Returned :
        BadSkip(history[i].before, skipNames) =>
            /\ history[i].err.kind # "ok"
            /\ history[i].after = history[i].before

\* a skip name without a production has been rejected, the start production
\* being defined
C7_Witness ==
    \E i \in ValidateCalls :
        /\ start \in DOMAIN history[i].before
        /\ history[i].err.kind = "no ignored production"
        /\ history[i].after = history[i].before

\* the syntactic productions whose tree holds a Range
RangeOffenders(g) == {n \in DOMAIN g : ~isLexical(n) /\ RangesIn(g[n]) # {}}

\* the checks validate makes before the range check pass
EarlierChecksPass(g, st, sk) ==
    /\ st \in DOMAIN g
    /\ ~BadSkip(g, sk)
    /\ Verify([g EXCEPT ![st] = SkipAlts(g[st], sk)], st) = {}

\* the error names a syntactic production and a Range of its tree
NamesMisplacedRange(g, e) ==
    /\ e.kind = "range in non-terminal"
    /\ e.name \in DOMAIN g
    /\ ~isLexical(e.name)
    /\ e.r \in RangesIn(g[e.name])

C10_StartRestored ==
    \A i \in Returned :
        start \in DOMAIN history[i].before =>
            history[i].after[start] = history[i].before[start]

----------------------------------------------------------------------------
(* Properties of terminal extraction.                                      *)

KindRank(kind) ==
    CASE kind = "Name" -> 1 [] kind = "Token" -> 2 [] kind = "Range" -> 3

\* names first, then tokens, then ranges, the keys of each kind ascending
InKeyOrder(o) ==
    \A i, j \in 1..Len(o) :
        i < j => \/ KindRank(o[i].kind) < KindRank(o[j].kind)
                 \/ /\ o[i].kind = o[j].kind
                    /\ StringLess(o[i].key, o[j].key)

\* C12: every list Terminals returns has the Name-terminals first, then the
\* Token-terminals, then the Range-terminals, the keys of each kind strictly
\* ascending (so no key twice), and all calls on one grammar return the same
\* list, however the map iterations go.
C12_TerminalsDeterministic ==
    /\ \A i \in 1..Len(terms) : InKeyOrder(terms[i])
    /\ \A i, j \in 1..Len(terms) : terms[i] = terms[j]

\* two calls on `Program = ws | Expr | "ab" .  Expr = "a" ... "z" |
\* "0" ... "9" | "a" .` have returned ws, "a", "ab", [0-9], [a-z]
C12_Witness ==
    /\ grammar = [Program |-> Alternative(<<Name("ws"), Name("Expr"), TokAB>>),
                  Expr |-> Alternative(<<RangeAZ, Range09, TokA>>)]
    /\ Len(terms) = 2
    /\ [i \in 1..Len(terms[2]) |-> terms[2][i].key]
          = <<Spelling["ws"], <<97>>, <<97, 98>>,
              <<91, 48, 45, 57, 93>>, <<91, 97, 45, 122, 93>>>>

RECURSIVE TokensIn(_)
\* the Token nodes of an expression tree
TokensIn(x) ==
    IF x.t = "Token" THEN {x}
    ELSE UNION {TokensIn(x.xs[i]) : i \in 1..Len(x.xs)}

\* the expressions of the productions that are not lexical
SyntacticTrees(g) == {g[n] : n \in {m \in DOMAIN g : ~isLexical(m)}}

\* the keys of one kind in a list of terminals
KeysOf(o, kind) == {o[i].key : i \in {j \in 1..Len(o) : o[j].kind = kind}}

\* C13: the Name-terminals are exactly the lexical names some Name node of a
\* syntactic production refers to, the Token-terminals exactly the literals
\* of the Token nodes of the syntactic productions, and every terminal is a
\* node of a syntactic production: nothing inside a lexical production is
\* listed and no syntactic name is.  For `Program = ident .  ident = letter
\* { letter | digit } .` the list is the one Name-terminal ident.
C13_SyntacticTreesOnly ==
    \A c \in 1..Len(terms) :
        LET o == terms[c]
        IN /\ KeysOf(o, "Name")
                 = {Spelling[n] :
                      n \in {m \in UNION {NamesIn(e) : e \in SyntacticTrees(grammar)} :
                                isLexical(m)}}
           /\ KeysOf(o, "Token")
                 = {Encode(t.str) :
                      t \in UNION {TokensIn(e) : e \in SyntacticTrees(grammar)}}
           /\ \A i \in 1..Len(o) :
                 /\ ~isLexical(o[i].at[1])
                 /\ o[i].kind = "Name" => isLexical(o[i].node.name)
           /\ grammar = [Program |-> Name("ident"), ident |-> IdentBody]
                 => /\ Len(o) = 1
                    /\ o[1].kind = "Name"
                    /\ o[1].node = Name("ident")

\* Terminals has run on `Program = ident .  ident = letter { letter | digit } .`
C13_Witness ==
    /\ grammar = [Program |-> Name("ident"), ident |-> IdentBody]
    /\ terms # <<>>
    /\ Len(terms[1]) = 1

\* validate returns ok on the grammar
Validated(g, st, sk) == \A o \in validate(g, st, sk) : o.err.kind = "ok"

\* C28: on a grammar validate returns ok for, terminal extraction meets no
\* Range in the productions that are not lexical: extractTerms, which treats
\* a Range as an internal error, does not panic, and Terminals, which
\* records Range-terminals, returns none.
C28_NoRangeAfterValidate ==
    Validated(grammar, start, skipNames) =>
        /\ status # "panic"
        /\ \A c \in 1..Len(terms) : KeysOf(terms[c], "Range") = {}

\* both extractors have run on `Program = ident .  ident = "0" ... "9" .`,
\* which validate accepts
C28_Witness ==
    /\ grammar = [Program |-> Name("ident"), ident |-> Range09]
    /\ Validated(grammar, start, skipNames)
    /\ status = "done"
    /\ DOMAIN retv.names = {Spelling["ident"]}
    /\ Len(terms) >= 1
    /\ Len(terms[1]) = 1

----------------------------------------------------------------------------
(* Properties of ebnf.Parse.                                               *)

\* the productions of the source, as the parser delimits them
Productions == parse(Tokens(source)).prods

\* the productions of the source named n, in source order
Named(n) == {i \in 1..Len(Productions) : Productions[i].name = n}

\* the errors recorded for a second or later declaration of n
DeclaredAlready(n) ==
    {i \in 1..Len(parse(Tokens(source)).errors) :
        /\ parse(Tokens(source)).errors[i].kind = "declared already"
        /\ parse(Tokens(source)).errors[i].arg = n}

\* C15: the grammar Parse returns has every name a production of the source
\* declares, mapped to the expression of the first production of that name;
\* for each later production of the name one error "declared already" is
\* recorded, at that production; the productions that follow are parsed as
\* written (for a source of well-formed productions: as many productions as
\* written, with the names written); the error returned is non-empty exactly
\* when an error was recorded.
C15_FirstDeclarationKept ==
    status = "parsed" =>
        /\ DOMAIN parsed.grammar = {Productions[i].name : i \in 1..Len(Productions)}
        /\ \A n \in DOMAIN parsed.grammar :
              /\ \E i \in Named(n) :
                    /\ \A j \in Named(n) : i <= j
                    /\ parsed.grammar[n] = Productions[i].expr
              /\ Cardinality(DeclaredAlready(n)) = Cardinality(Named(n)) - 1
              /\ {parse(Tokens(source)).errors[e].at : e \in DeclaredAlready(n)}
                    = {Productions[i].at :
                         i \in {j \in Named(n) : \E k \in Named(n) : k < j}}
        /\ (\A i \in 1..Len(source) : source[i].wf) =>
              /\ Len(Productions) = Len(source)
              /\ \A i \in 1..Len(source) : Productions[i].name = source[i].name
        /\ (parsed.errors # <<>>) = (parse(Tokens(source)).errors # <<>>)

\* `A = "a" .  b = x "a" .  A = .` has been parsed: A is the token, b is
\* there, the one error is the second declaration of A
C15_Witness ==
    /\ status = "parsed"
    /\ source = <<Written("A", << <<TermA>> >>),
                  Written("b", << <<TermX, TermA>> >>),
                  Written("A", <<>>)>>
    /\ parsed.grammar = [A |-> Token(<<97>>),
                         b |-> Sequence(<<Name("x"), Token(<<97>>)>>)]
    /\ Len(parsed.errors) = 1
    /\ parsed.errors[1].kind = "declared already"
    /\ parsed.errors[1].arg = "A"

RECURSIVE TreeOfTerm(_)
RECURSIVE TreeOfSeq(_)
RECURSIVE TreeOfAlts(_)

\* the node a term stands for
TreeOfTerm(t) ==
    CASE t.k = "name" -> Name(t.name)
      [] t.k = "token" -> Token(t.val)
      [] t.k = "range" -> Range(t.val, t.val2)
      [] t.k = "group" -> Group(TreeOfAlts(t.alts))
      [] t.k = "option" -> Option(TreeOfAlts(t.alts))
      [] t.k = "repetition" -> Repetition(TreeOfAlts(t.alts))

\* no term: a syntax error; one term: the term; more: a Sequence of them
TreeOfSeq(ts) ==
    IF Len(ts) = 0 THEN Bad
    ELSE IF Len(ts) = 1 THEN TreeOfTerm(ts[1])
    ELSE Sequence([i \in 1..Len(ts) |-> TreeOfTerm(ts[i])])

\* no expression: nil; one alternative: its tree; more: an Alternative
TreeOfAlts(alts) ==
    IF Len(alts) = 0 THEN Nil
    ELSE IF Len(alts) = 1 THEN TreeOfSeq(alts[1])
    ELSE Alternative([i \in 1..Len(alts) |-> TreeOfSeq(alts[i])])

RECURSIVE Sum(_)
Sum(ns) == IF ns = <<>> THEN 0 ELSE Head(ns) + Sum(Tail(ns))

RECURSIVE EmptySeqs(_)
\* the number of alternatives without a term in a shape, nested ones counted
EmptySeqs(alts) ==
    Sum([i \in 1..Len(alts) |->
            IF alts[i] = <<>> THEN 1
            ELSE Sum([j \in 1..Len(alts[i]) |-> EmptySeqs(alts[i][j].alts)])])

RECURSIVE Paired(_)
\* every Sequence and every Alternative of the tree has two children or more
Paired(x) ==
    /\ x.t \in {"Sequence", "Alternative"} => Len(x.xs) >= 2
    /\ \A i \in 1..Len(x.xs) : Paired(x.xs[i])

\* C16: a production written as a list of alternatives, each a list of terms,
\* parses to: for an alternative without a term a Bad node, with one syntax
\* error "expected term" recorded for each; for one term that term's node;
\* for more a Sequence of the nodes in source order; and for one alternative
\* its tree, for more an Alternative of the trees in source order.  In every
\* grammar Parse returns, from well-formed sources or not, every Sequence and
\* every Alternative has at least two children.
C16_WrappersOnlyWhenNeeded ==
    status = "parsed" =>
        /\ \A n \in DOMAIN parsed.grammar : Paired(parsed.grammar[n])
        /\ (\A i \in 1..Len(source) : source[i].wf) =>
              /\ \A i \in 1..Len(source) :
                    Productions[i].expr = TreeOfAlts(source[i].alts)
              /\ Cardinality({e \in 1..Len(parsed.errors) :
                                  /\ parsed.errors[e].kind = "expected"
                                  /\ parsed.errors[e].arg = "term"})
                    = Sum([i \in 1..Len(source) |-> EmptySeqs(source[i].alts)])

\* `A = x "a" | .` has been parsed: a Sequence of the two terms beside the
\* Bad node of the empty alternative, and one syntax error
C16_Witness ==
    /\ status = "parsed"
    /\ source = <<Written("A", << <<TermX, TermA>>, <<>> >>)>>
    /\ parsed.grammar =
          [A |-> Alternative(<<Sequence(<<Name("x"), Token(<<97>>)>>), Bad>>)]
    /\ Len(parsed.errors) = 1

\* the tokens the parser calls expect with
Expected == {"Ident", "String", "=", ".", ")", "]", "}", "rarrow"}

\* the parser state with the look-ahead at token i and no error recorded
At(i) == [i |-> i, errs |-> <<>>]

\* C30: the parser terminates on every token stream, well-formed or not:
\* started at any token of the stream, expect reads on by one token whether
\* or not it found the token expected, parseProduction consumes at least one
\* token, and a term parseTerm returns has consumed at least one token; so
\* each production the loop of parse parses starts behind the one before,
\* and the loop ends at the end of the source.
C30_ParserProgress ==
    status = "parsed" =>
        LET toks == Tokens(source)
        IN /\ \A i \in 1..Len(toks) :
                 /\ \A t \in Expected : expect(toks, At(i), t).i = i + 1
                 /\ parseProduction(toks, At(i)).ps.i > i
                 /\ parseTerm(toks, At(i)).x # Nil
                       => parseTerm(toks, At(i)).ps.i > i
           /\ \A k \in 1..(Len(Productions) - 1) :
                 Productions[k].at < Productions[k + 1].at
           /\ Len(Productions) <= Len(toks)
           /\ parsed.grammar = parse(toks).grammar

\* `A = ( x .  b = .` has been parsed: expect read on past the "." it found
\* in place of ")" and past the "=" it found in place of ".", and the loop
\* of parse came to the end of the source with a second production
C30_Witness ==
    /\ status = "parsed"
    /\ source = <<Unbalanced, Written("b", <<>>)>>
    /\ Len(parse(Tokens(source)).errors) >= 2
    /\ parse(Tokens(source)).errors[1] = Error(5, "expected", ")")
    /\ parse(Tokens(source)).errors[2] = Error(7, "expected", ".")
    /\ Len(Productions) = 2

----------------------------------------------------------------------------
(* Properties of the regular expression of a terminal.  The strings a      *)
(* regular expression matches, read as the regexp package reads it:        *)
(* alternation binds loosest, then concatenation, then the postfix * and   *)
(* ?; ( ) groups; [x-y] is a character class; *? and ?? are the non-greedy *)
(* forms; a repetition operator after a repetition operator, or after     *)
(* nothing, and an unclosed parenthesis are syntax errors.                 *)

ReNode(op, lo, hi, subs) == [op |-> op, lo |-> lo, hi |-> hi, subs |-> subs]

ReResult(ok, ast, i) == [ok |-> ok, ast |-> ast, i |-> i]

ReEmpty == ReNode("empty", 0, 0, <<>>)

ReFail(i) == ReResult(FALSE, ReEmpty, i)

\* the i-th byte of the expression, 0 past its end
ReAt(str, i) == IF i > Len(str) THEN 0 ELSE str[i]

RECURSIVE ReAlt(_, _)
RECURSIVE ReCat(_, _)
RECURSIVE ReRepeat(_, _)
RECURSIVE ReAtom(_, _)

\* concatenation { "|" concatenation }
ReAlt(str, i) ==
    LET c == ReCat(str, i)
    IN IF c.ok /\ ReAt(str, c.i) = 124
       THEN LET r == ReAlt(str, c.i + 1)
            IN ReResult(r.ok, ReNode("alt", 0, 0, <<c.ast, r.ast>>), r.i)
       ELSE c

\* { repeat }
ReCat(str, i) ==
    IF ReAt(str, i) \in {0, 124, 41} THEN ReResult(TRUE, ReEmpty, i)
    ELSE LET a == ReRepeat(str, i)
         IN IF ~a.ok THEN a
            ELSE LET r == ReCat(str, a.i)
                 IN ReResult(r.ok, ReNode("cat", 0, 0, <<a.ast, r.ast>>), r.i)

\* atom [ "*" | "?" ] [ "?" ]
ReRepeat(str, i) ==
    LET a == ReAtom(str, i)
        op == ReAt(str, a.i)
        after == IF ReAt(str, a.i + 1) = 63 THEN a.i + 2 ELSE a.i + 1
    IN IF ~a.ok \/ op \notin {42, 63} THEN a
       ELSE IF ReAt(str, after) \in {42, 63} THEN ReFail(after)
       ELSE ReResult(TRUE,
                     ReNode(IF op = 42 THEN "star" ELSE "quest", 0, 0, <<a.ast>>),
                     after)

\* "(" alternation ")" | "[" x "-" y "]" | character
ReAtom(str, i) ==
    LET ch == ReAt(str, i)
    IN IF ch = 40
       THEN LET b == ReAlt(str, i + 1)
            IN IF b.ok /\ ReAt(str, b.i) = 41
               THEN ReResult(TRUE, ReNode("group", 0, 0, <<b.ast>>), b.i + 1)
               ELSE ReFail(b.i)
       ELSE IF ch = 91
       THEN IF ReAt(str, i + 2) = 45 /\ ReAt(str, i + 4) = 93
            THEN ReResult(TRUE,
                          ReNode("class", ReAt(str, i + 1), ReAt(str, i + 3), <<>>),
                          i + 5)
            ELSE ReFail(i)
       ELSE IF ch \in {42, 63, 93} THEN ReFail(i)
       ELSE ReResult(TRUE, ReNode("class", ch, ch, <<>>), i + 1)

RECURSIVE ReEnds(_, _, _)
RECURSIVE ReStarEnds(_, _, _)

\* the positions of s where a match of the expression begun at a position of
\* S may end
ReEnds(ast, s, S) ==
    CASE ast.op = "empty" -> S
      [] ast.op = "class" ->
            {q + 1 : q \in {k \in S : /\ k < Len(s)
                                       /\ s[k + 1] >= ast.lo
                                       /\ s[k + 1] <= ast.hi}}
      [] ast.op = "cat" -> ReEnds(ast.subs[2], s, ReEnds(ast.subs[1], s, S))
      [] ast.op = "alt" -> ReEnds(ast.subs[1], s, S) \cup ReEnds(ast.subs[2], s, S)
      [] ast.op = "group" -> ReEnds(ast.subs[1], s, S)
      [] ast.op = "quest" -> S \cup ReEnds(ast.subs[1], s, S)
      [] ast.op = "star" -> ReStarEnds(ast.subs[1], s, S)

ReStarEnds(sub, s, S) ==
    IF ReEnds(sub, s, S) \subseteq S THEN S
    ELSE ReStarEnds(sub, s, S \cup ReEnds(sub, s, S))

\* the regular expression str is well-formed and matches the whole of s
MatchesWhole(str, s) ==
    /\ ReAlt(str, 1).ok
    /\ ReAlt(str, 1).i = Len(str) + 1
    /\ Len(s) \in ReEnds(ReAlt(str, 1).ast, s, {0})

\* C14: once a lexical production of a validated grammar has been
\* interpreted on s, it has accepted s (matched, with the cursor at the end
\* of s) exactly if the regular expression string RegexpString makes of the
\* production matches the whole of s.
C14_RegexpEquivalent ==
    status = "done" =>
        ((ret /\ pos = Len(input)) <=> MatchesWhole(re, input))

RECURSIVE Resolved(_, _)
\* the expression a chain of Name references ends in
Resolved(g, x) == IF x.t = "Name" THEN Resolved(g, g[x.name]) ELSE x

RECURSIVE Rendered(_, _, _)
\* the translation of x; scoped tells that x stands as an element of a
\* Sequence or as the body of an Option or Repetition, where it is wrapped in
\* parentheses exactly if it is an Alternative, directly or through Names
Rendered(g, x, scoped) ==
    LET inner ==
            CASE x.t = "nil" -> <<>>
              [] x.t = "Alternative" ->
                    Join([i \in 1..Len(x.xs) |-> Rendered(g, x.xs[i], FALSE)],
                         <<124>>)
              [] x.t = "Sequence" ->
                    Join([i \in 1..Len(x.xs) |-> Rendered(g, x.xs[i], TRUE)],
                         <<>>)
              [] x.t = "Name" -> Rendered(g, g[x.name], FALSE)
              [] x.t = "Token" -> Encode(x.str)
              [] x.t = "Range" -> RangeKey(x)
              [] x.t = "Group" -> InParens(Rendered(g, Body(x), FALSE))
              [] x.t = "Option" -> Rendered(g, Body(x), TRUE) \o <<63>>
              [] x.t = "Repetition" -> Rendered(g, Body(x), TRUE) \o <<42>>
    IN IF scoped /\ Resolved(g, x).t = "Alternative"
       THEN InParens(inner)
       ELSE inner

\* C24: in the string RegexpString produces, a translated sub-expression is
\* wrapped in added parentheses exactly when it is an Alternative (directly
\* or through a chain of Names) standing as an element of a Sequence or as
\* the body of an Option or Repetition; an Alternative at the top level and
\* every other sub-expression get none (a Group emits its own pair).
C24_ParenthesesWhereScoped ==
    status \in {"run", "done"} /\ start = "ident" =>
        re = Rendered(grammar, Name(start), FALSE)

\* `ident = choice "a" .  choice = "a" | "b" .` is compiled to `(a|b)a`
C24_Witness ==
    /\ status = "done"
    /\ grammar["ident"] = Sequence(<<Name("choice"), TokA>>)
    /\ re = <<40, 97, 124, 98, 41, 97>>

\* C29: on a grammar validate returns ok for, RegexpString terminates on
\* every terminal extraction returns, also when a lexical production refers
\* to itself, directly or through other lexical productions: the translation
\* never runs out of stack.
C29_RegexpTerminates ==
    (Validated(grammar, "Program", <<>>) /\ start = "ident") =>
        status # "overflow"

====
